---- MODULE Spec2Model ----
(***************************************************************************)
(* blender2vox: the MagicaVoxel .vox codec (vox_writer.py, vox_reader.py), *)
(* the import metadata (vox_importer.py) and the export merge and colour   *)
(* quantizer (vox_exporter.py).                                            *)
(*                                                                         *)
(* Bytes are numbers 0..255 and a byte string is a sequence of them.       *)
(* Python lists that are indexed from 0 (the palette) are functions on     *)
(* 0..n-1; lists that are only appended to and iterated are sequences.     *)
(* An operation that raises returns a record whose field raised names the  *)
(* exception.                                                              *)
(***************************************************************************)
EXTENDS Integers, Sequences, FiniteSets, TLC

VARIABLES
    pc,        \* position of the driving script
    size,      \* VoxModel.size_x, size_y, size_z of the model being built
    voxels,    \* VoxModel.voxels
    colors,    \* VoxPalette.colors of the writer
    call,      \* the operation called last
    args,      \* and the arguments it was called with
    raised,    \* exception raised by the last call, "none" if it returned
    file,      \* bytes of the file on disk
    scene,     \* what read_vox_scene returned
    objects,   \* the source objects handed to VoxExporter.export
    quant,     \* input and result of quantize_colors
    voxel_data, \* what read_vox_file returned
    result     \* what get_voxel_color or apply_vox_rotation returned

vars == <<pc, size, voxels, colors, call, args, raised, file, scene, objects, quant,
          voxel_data, result>>

(***************************************************************************)
(* Bounds of the model.                                                    *)
(***************************************************************************)
\* longest voxel list built by add_voxel calls
MaxVoxels == 2

\* most objects in the scene an export starts from
MaxObjects == 2

\* most chunks inside MAIN of a file handed to the reader
MaxChunks == 4

\* most scene graph chunks (nTRN, nSHP) after the models of a file
MaxGraph == 3

\* most chunks inside MAIN of a file with a damaged or unusual header or end
MaxDamaged == 3

\* longest colour list handed to quantize_colors, and the largest max_colors
MaxColorList == 3

MaxPalette == 4

(***************************************************************************)
(* Generic helpers.                                                        *)
(***************************************************************************)
Min(a, b) == IF a < b THEN a ELSE b

Max(a, b) == IF a > b THEN a ELSE b

\* Python's s[a:b] for 0 <= a, 0 <= b on a byte string or list
Slice(s, a, b) ==
    LET e == Min(b, Len(s))
    IN  IF a >= e THEN << >> ELSE SubSeq(s, a + 1, e)

\* concatenation of a sequence of sequences, in order
RECURSIVE Concat(_)
Concat(ss) == IF ss = << >> THEN << >> ELSE Head(ss) \o Concat(Tail(ss))

\* concatenation of the n four-byte groups g[1], ..., g[n]
Groups4(g, n) == [j \in 1..(4 * n) |-> g[((j - 1) \div 4) + 1][((j - 1) % 4) + 1]]

(***************************************************************************)
(* struct.pack / struct.unpack                                             *)
(***************************************************************************)
\* struct.pack('<I', n): four bytes, least significant first.  The module's
\* integers stay below 2^31, so the upper limit 2^32-1 of the format is
\* never exceeded; a negative n raises struct.error (see pack_ok_I).
pack_I_swapped(n) ==
    << (n \div 16777216) % 256, (n \div 65536) % 256, (n \div 256) % 256, n % 256 >>

pack_I(n) ==
    << n % 256, (n \div 256) % 256, (n \div 65536) % 256, (n \div 16777216) % 256 >>

pack_ok_I(n) == n >= 0

\* struct.pack('<B', n) succeeds for 0..255 only
pack_ok_B(n) == n \in 0..255

\* struct.unpack('<I', b)[0] for a 4-byte string b
unpack_I(b) == b[1] + 256 * b[2] + 65536 * b[3] + 16777216 * b[4]

\* the ASCII bytes of the chunk ids and of the magic
ID_VOX  == <<86, 79, 88, 32>>
ID_MAIN == <<77, 65, 73, 78>>
ID_PACK == <<80, 65, 67, 75>>
ID_SIZE == <<83, 73, 90, 69>>
ID_XYZI == <<88, 89, 90, 73>>
ID_RGBA == <<82, 71, 66, 65>>
ID_nTRN == <<110, 84, 82, 78>>
ID_nSHP == <<110, 83, 72, 80>>

VOX_VERSION == 150

(***************************************************************************)
(* The default palette: each entry of the table is the literal 0xAABBGGRR  *)
(* written as its four bytes <<AA, BB, GG, RR>>.  The writer's and the     *)
(* reader's tables are the same 256 literals.                              *)
(***************************************************************************)
DefaultHex ==
   << <<0,0,0,0>>, <<255,255,255,255>>, <<255,204,255,255>>, <<255,153,255,255>>,
      <<255,102,255,255>>, <<255,51,255,255>>, <<255,0,255,255>>, <<255,255,204,255>>,
      <<255,204,204,255>>, <<255,153,204,255>>, <<255,102,204,255>>, <<255,51,204,255>>,
      <<255,0,204,255>>, <<255,255,153,255>>, <<255,204,153,255>>, <<255,153,153,255>>,
      <<255,102,153,255>>, <<255,51,153,255>>, <<255,0,153,255>>, <<255,255,102,255>>,
      <<255,204,102,255>>, <<255,153,102,255>>, <<255,102,102,255>>, <<255,51,102,255>>,
      <<255,0,102,255>>, <<255,255,51,255>>, <<255,204,51,255>>, <<255,153,51,255>>,
      <<255,102,51,255>>, <<255,51,51,255>>, <<255,0,51,255>>, <<255,255,0,255>>,
      <<255,204,0,255>>, <<255,153,0,255>>, <<255,102,0,255>>, <<255,51,0,255>>,
      <<255,0,0,255>>, <<255,255,255,204>>, <<255,204,255,204>>, <<255,153,255,204>>,
      <<255,102,255,204>>, <<255,51,255,204>>, <<255,0,255,204>>, <<255,255,204,204>>,
      <<255,204,204,204>>, <<255,153,204,204>>, <<255,102,204,204>>, <<255,51,204,204>>,
      <<255,0,204,204>>, <<255,255,153,204>>, <<255,204,153,204>>, <<255,153,153,204>>,
      <<255,102,153,204>>, <<255,51,153,204>>, <<255,0,153,204>>, <<255,255,102,204>>,
      <<255,204,102,204>>, <<255,153,102,204>>, <<255,102,102,204>>, <<255,51,102,204>>,
      <<255,0,102,204>>, <<255,255,51,204>>, <<255,204,51,204>>, <<255,153,51,204>>,
      <<255,102,51,204>>, <<255,51,51,204>>, <<255,0,51,204>>, <<255,255,0,204>>,
      <<255,204,0,204>>, <<255,153,0,204>>, <<255,102,0,204>>, <<255,51,0,204>>,
      <<255,0,0,204>>, <<255,255,255,153>>, <<255,204,255,153>>, <<255,153,255,153>>,
      <<255,102,255,153>>, <<255,51,255,153>>, <<255,0,255,153>>, <<255,255,204,153>>,
      <<255,204,204,153>>, <<255,153,204,153>>, <<255,102,204,153>>, <<255,51,204,153>>,
      <<255,0,204,153>>, <<255,255,153,153>>, <<255,204,153,153>>, <<255,153,153,153>>,
      <<255,102,153,153>>, <<255,51,153,153>>, <<255,0,153,153>>, <<255,255,102,153>>,
      <<255,204,102,153>>, <<255,153,102,153>>, <<255,102,102,153>>, <<255,51,102,153>>,
      <<255,0,102,153>>, <<255,255,51,153>>, <<255,204,51,153>>, <<255,153,51,153>>,
      <<255,102,51,153>>, <<255,51,51,153>>, <<255,0,51,153>>, <<255,255,0,153>>,
      <<255,204,0,153>>, <<255,153,0,153>>, <<255,102,0,153>>, <<255,51,0,153>>,
      <<255,0,0,153>>, <<255,255,255,102>>, <<255,204,255,102>>, <<255,153,255,102>>,
      <<255,102,255,102>>, <<255,51,255,102>>, <<255,0,255,102>>, <<255,255,204,102>>,
      <<255,204,204,102>>, <<255,153,204,102>>, <<255,102,204,102>>, <<255,51,204,102>>,
      <<255,0,204,102>>, <<255,255,153,102>>, <<255,204,153,102>>, <<255,153,153,102>>,
      <<255,102,153,102>>, <<255,51,153,102>>, <<255,0,153,102>>, <<255,255,102,102>>,
      <<255,204,102,102>>, <<255,153,102,102>>, <<255,102,102,102>>, <<255,51,102,102>>,
      <<255,0,102,102>>, <<255,255,51,102>>, <<255,204,51,102>>, <<255,153,51,102>>,
      <<255,102,51,102>>, <<255,51,51,102>>, <<255,0,51,102>>, <<255,255,0,102>>,
      <<255,204,0,102>>, <<255,153,0,102>>, <<255,102,0,102>>, <<255,51,0,102>>,
      <<255,0,0,102>>, <<255,255,255,51>>, <<255,204,255,51>>, <<255,153,255,51>>,
      <<255,102,255,51>>, <<255,51,255,51>>, <<255,0,255,51>>, <<255,255,204,51>>,
      <<255,204,204,51>>, <<255,153,204,51>>, <<255,102,204,51>>, <<255,51,204,51>>,
      <<255,0,204,51>>, <<255,255,153,51>>, <<255,204,153,51>>, <<255,153,153,51>>,
      <<255,102,153,51>>, <<255,51,153,51>>, <<255,0,153,51>>, <<255,255,102,51>>,
      <<255,204,102,51>>, <<255,153,102,51>>, <<255,102,102,51>>, <<255,51,102,51>>,
      <<255,0,102,51>>, <<255,255,51,51>>, <<255,204,51,51>>, <<255,153,51,51>>,
      <<255,102,51,51>>, <<255,51,51,51>>, <<255,0,51,51>>, <<255,255,0,51>>,
      <<255,204,0,51>>, <<255,153,0,51>>, <<255,102,0,51>>, <<255,51,0,51>>,
      <<255,0,0,51>>, <<255,255,255,0>>, <<255,204,255,0>>, <<255,153,255,0>>,
      <<255,102,255,0>>, <<255,51,255,0>>, <<255,0,255,0>>, <<255,255,204,0>>,
      <<255,204,204,0>>, <<255,153,204,0>>, <<255,102,204,0>>, <<255,51,204,0>>,
      <<255,0,204,0>>, <<255,255,153,0>>, <<255,204,153,0>>, <<255,153,153,0>>,
      <<255,102,153,0>>, <<255,51,153,0>>, <<255,0,153,0>>, <<255,255,102,0>>,
      <<255,204,102,0>>, <<255,153,102,0>>, <<255,102,102,0>>, <<255,51,102,0>>,
      <<255,0,102,0>>, <<255,255,51,0>>, <<255,204,51,0>>, <<255,153,51,0>>,
      <<255,102,51,0>>, <<255,51,51,0>>, <<255,0,51,0>>, <<255,255,0,0>>,
      <<255,204,0,0>>, <<255,153,0,0>>, <<255,102,0,0>>, <<255,51,0,0>>,
      <<255,0,0,238>>, <<255,0,0,221>>, <<255,0,0,187>>, <<255,0,0,170>>,
      <<255,0,0,136>>, <<255,0,0,119>>, <<255,0,0,85>>, <<255,0,0,68>>,
      <<255,0,0,34>>, <<255,0,0,17>>, <<255,0,238,0>>, <<255,0,221,0>>,
      <<255,0,187,0>>, <<255,0,170,0>>, <<255,0,136,0>>, <<255,0,119,0>>,
      <<255,0,85,0>>, <<255,0,68,0>>, <<255,0,34,0>>, <<255,0,17,0>>,
      <<255,238,0,0>>, <<255,221,0,0>>, <<255,187,0,0>>, <<255,170,0,0>>,
      <<255,136,0,0>>, <<255,119,0,0>>, <<255,85,0,0>>, <<255,68,0,0>>,
      <<255,34,0,0>>, <<255,17,0,0>>, <<255,238,238,238>>, <<255,221,221,221>>,
      <<255,187,187,187>>, <<255,170,170,170>>, <<255,136,136,136>>, <<255,119,119,119>>,
      <<255,85,85,85>>, <<255,68,68,68>>, <<255,34,34,34>>, <<255,17,17,17>> >>

(***************************************************************************)
(* vox_writer.py                                                           *)
(***************************************************************************)
\* VoxChunk.to_bytes
to_bytes(chunk_id, content, children) ==
    chunk_id \o pack_I(Len(content)) \o pack_I(Len(children)) \o content \o children

\* VoxModel.add_voxel on the voxel list vs: the new list and what was raised
add_voxel_late_check(vs, x, y, z, color_index) ==
    IF ~(0 <= x /\ x < 256 /\ 0 <= y /\ y < 256 /\ 0 <= z /\ z < 256)
    THEN [voxels |-> Append(vs, <<x, y, z, color_index>>), raised |-> "ValueError"]
    ELSE IF ~(1 <= color_index /\ color_index <= 255)
    THEN [voxels |-> Append(vs, <<x, y, z, color_index>>), raised |-> "ValueError"]
    ELSE [voxels |-> Append(vs, <<x, y, z, color_index>>), raised |-> "none"]

add_voxel_off_by_one(vs, x, y, z, color_index) ==
    IF ~(0 <= x /\ x <= 256 /\ 0 <= y /\ y <= 256 /\ 0 <= z /\ z <= 256)
    THEN [voxels |-> vs, raised |-> "ValueError"]
    ELSE IF ~(0 <= color_index /\ color_index <= 255)
    THEN [voxels |-> vs, raised |-> "ValueError"]
    ELSE [voxels |-> Append(vs, <<x, y, z, color_index>>), raised |-> "none"]

add_voxel(vs, x, y, z, color_index) ==
    IF ~(0 <= x /\ x < 256 /\ 0 <= y /\ y < 256 /\ 0 <= z /\ z < 256)
    THEN [voxels |-> vs, raised |-> "ValueError"]
    ELSE IF ~(1 <= color_index /\ color_index <= 255)
    THEN [voxels |-> vs, raised |-> "ValueError"]
    ELSE [voxels |-> Append(vs, <<x, y, z, color_index>>), raised |-> "none"]

\* VoxModel.get_size_chunk: the content of the SIZE chunk
size_content(sz) == pack_I(sz[1]) \o pack_I(sz[2]) \o pack_I(sz[3])

size_content_ok(sz) == pack_ok_I(sz[1]) /\ pack_ok_I(sz[2]) /\ pack_ok_I(sz[3])

get_size_chunk(sz) == to_bytes(ID_SIZE, size_content(sz), << >>)

\* VoxModel.get_xyzi_chunk: the content of the XYZI chunk
xyzi_content(vs) ==
    pack_I(Len(vs))
    \o Groups4([i \in 1..Len(vs) |-> <<vs[i][1], vs[i][2], vs[i][3], vs[i][4]>>], Len(vs))

xyzi_content_ok(vs) ==
    \A i \in 1..Len(vs) : \A k \in 1..4 : pack_ok_B(vs[i][k])

get_xyzi_chunk(vs) == to_bytes(ID_XYZI, xyzi_content(vs), << >>)

\* VoxPalette._get_default_palette: (r, g, b, a) from 0xAABBGGRR
writer_default_palette ==
    [i \in 0..255 |-> LET val == DefaultHex[i + 1]
                      IN  <<val[4], val[3], val[2], val[1]>>]

\* VoxPalette.set_color on the palette cols
set_color(cols, index, r, g, b, a) ==
    IF ~(1 <= index /\ index <= 255)
    THEN [colors |-> cols, raised |-> "ValueError"]
    ELSE [colors |-> [cols EXCEPT ![index] = <<r, g, b, a>>], raised |-> "none"]

\* the colour get_rgba_chunk writes at file position i
rgba_entry_unshifted(cols, n, i) ==
    IF i < n THEN cols[i] ELSE <<0, 0, 0, 255>>

\* the colour at file position i with the filler (0, 0, 0, 0)
rgba_entry_zero_filler(cols, n, i) ==
    LET color_idx == i + 1
    IN  IF color_idx < n THEN cols[color_idx] ELSE <<0, 0, 0, 0>>

rgba_entry(cols, n, i) ==
    LET color_idx == i + 1
    IN  IF color_idx < n THEN cols[color_idx] ELSE <<0, 0, 0, 255>>

\* VoxPalette.get_rgba_chunk: the content of the RGBA chunk
rgba_content(cols) ==
    LET n == Cardinality(DOMAIN cols)
    IN  Groups4([k \in 1..256 |-> rgba_entry(cols, n, k - 1)], 256)

rgba_content_ok(cols) ==
    LET n == Cardinality(DOMAIN cols)
    IN  \A i \in 0..255 : \A k \in 1..4 : pack_ok_B(rgba_entry(cols, n, i)[k])

get_rgba_chunk(cols) == to_bytes(ID_RGBA, rgba_content(cols), << >>)

\* the 8 bytes VoxWriter.write writes first
file_header == ID_VOX \o pack_I(VOX_VERSION)

\* VoxWriter.write for the models ms (records with size and voxels) and the
\* palette cols: the bytes left in the file and what was raised.  The header
\* is written before the chunks are built, so a struct.error while building
\* them leaves the header alone in the file.
write(ms, cols) ==
    IF \/ (Len(ms) > 1 /\ ~pack_ok_I(Len(ms)))
       \/ \E i \in 1..Len(ms) : ~size_content_ok(ms[i].size) \/ ~xyzi_content_ok(ms[i].voxels)
       \/ ~rgba_content_ok(cols)
    THEN [data |-> file_header, raised |-> "struct.error"]
    ELSE LET pack == IF Len(ms) > 1
                     THEN to_bytes(ID_PACK, pack_I(Len(ms)), << >>)
                     ELSE << >>
             children_data ==
                 pack
                 \o Concat([i \in 1..Len(ms) |->
                              get_size_chunk(ms[i].size) \o get_xyzi_chunk(ms[i].voxels)])
                 \o get_rgba_chunk(cols)
         IN  [data |-> file_header \o to_bytes(ID_MAIN, << >>, children_data),
              raised |-> "none"]

(***************************************************************************)
(* vox_reader.py                                                           *)
(***************************************************************************)
\* get_default_palette of the reader: (r, g, b, a) from 0xAABBGGRR
get_default_palette ==
    [i \in 0..255 |-> LET val == DefaultHex[i + 1]
                      IN  <<val[4], val[3], val[2], val[1]>>]

\* whether content[pos:pos+4] holds the four bytes struct.unpack('<I') needs
has_u32(content, pos) == Len(Slice(content, pos, pos + 4)) = 4

u32_at(content, pos) == unpack_I(Slice(content, pos, pos + 4))

Failed(exc) == [raised |-> exc]

\* one chunk of the chunk loop: id and content, the content cut short by the
\* slice when it runs past the end of the data
chunk_at(data, pos, content_size) ==
    [id |-> Slice(data, pos, pos + 4),
     content |-> Slice(data, pos + 12, pos + 12 + content_size)]

\* the chunk loop taking 8 bytes (id and content size) for a chunk header
RECURSIVE parse_chunks_short_header(_, _)
parse_chunks_short_header(data, pos) ==
    IF ~(pos < Len(data)) \/ pos + 8 > Len(data)
    THEN << >>
    ELSE <<chunk_at(data, pos, u32_at(data, pos + 4))>>
         \o parse_chunks_short_header(data, pos + 12 + u32_at(data, pos + 4))

\* the value of pos when the chunk loop started at byte offset pos ends
RECURSIVE chunks_end(_, _)
chunks_end(data, pos) ==
    IF ~(pos < Len(data)) \/ pos + 12 > Len(data)
    THEN pos
    ELSE chunks_end(data, pos + 12 + u32_at(data, pos + 4))

\* the chunk loop of read_vox_scene from byte offset pos: the list of
\* (id, content).  The loop stops without an error when fewer than 12 bytes
\* are left.
RECURSIVE parse_chunks(_, _)
parse_chunks(data, pos) ==
    IF ~(pos < Len(data)) \/ pos + 12 > Len(data)
    THEN << >>
    ELSE <<chunk_at(data, pos, u32_at(data, pos + 4))>>
         \o parse_chunks(data, pos + 12 + u32_at(data, pos + 4))

\* the reader's VoxModel dataclass
ReaderVoxModel(sz, vs) ==
    [size_x |-> sz[1], size_y |-> sz[2], size_z |-> sz[3], voxels |-> vs,
     translation |-> <<0, 0, 0>>, rotation |-> 0, name |-> << >>]

\* the voxels of an XYZI content holding at least 4 + 4 * num_voxels bytes
xyzi_voxels(content, num_voxels) ==
    [i \in 1..num_voxels |->
        <<content[4 * i + 1], content[4 * i + 2], content[4 * i + 3], content[4 * i + 4]>>]

\* the palette of an RGBA content holding at least 1024 bytes
rgba_palette(content) ==
    [i \in 0..255 |->
        <<content[4 * i + 1], content[4 * i + 2], content[4 * i + 3], content[4 * i + 4]>>]

\* current_size = None; a tuple of three numbers is truthy in "if current_size"
NoSize == << >>

\* the loop body forgetting the size at a chunk that is not SIZE, XYZI or RGBA
extract_step_reset_on_unknown(chunk_id, content, st) ==
    IF chunk_id = ID_SIZE
    THEN IF Len(Slice(content, 0, 12)) < 12 THEN Failed("struct.error")
         ELSE [st EXCEPT !.current_size = <<u32_at(content, 0), u32_at(content, 4), u32_at(content, 8)>>]
    ELSE IF chunk_id = ID_XYZI
    THEN IF Len(content) < 4 THEN Failed("struct.error")
         ELSE IF Len(content) < 4 + 4 * u32_at(content, 0) THEN Failed("struct.error")
         ELSE IF st.current_size # NoSize
         THEN [st EXCEPT !.models = Append(@, ReaderVoxModel(st.current_size, xyzi_voxels(content, u32_at(content, 0))))]
         ELSE st
    ELSE IF chunk_id = ID_RGBA
    THEN IF Len(content) < 1024 THEN Failed("struct.error")
         ELSE [st EXCEPT !.palette = rgba_palette(content)]
    ELSE [st EXCEPT !.current_size = NoSize]

\* the loop body giving an XYZI chunk without a size the size (1, 1, 1)
extract_step_default_size(chunk_id, content, st) ==
    IF chunk_id = ID_SIZE
    THEN IF Len(Slice(content, 0, 12)) < 12 THEN Failed("struct.error")
         ELSE [st EXCEPT !.current_size = <<u32_at(content, 0), u32_at(content, 4), u32_at(content, 8)>>]
    ELSE IF chunk_id = ID_XYZI
    THEN IF Len(content) < 4 THEN Failed("struct.error")
         ELSE IF Len(content) < 4 + 4 * u32_at(content, 0) THEN Failed("struct.error")
         ELSE [st EXCEPT !.models =
                  Append(@, ReaderVoxModel(IF st.current_size # NoSize THEN st.current_size ELSE <<1, 1, 1>>,
                                           xyzi_voxels(content, u32_at(content, 0))))]
    ELSE IF chunk_id = ID_RGBA
    THEN IF Len(content) < 1024 THEN Failed("struct.error")
         ELSE [st EXCEPT !.palette = rgba_palette(content)]
    ELSE st

\* what one chunk does to the state (models, current_size, palette) of the
\* first loop over the chunks
extract_step(chunk_id, content, st) ==
    IF chunk_id = ID_SIZE
    THEN IF Len(Slice(content, 0, 12)) < 12
         THEN Failed("struct.error")
         ELSE [st EXCEPT !.current_size =
                  <<u32_at(content, 0), u32_at(content, 4), u32_at(content, 8)>>]
    ELSE IF chunk_id = ID_XYZI
    THEN IF Len(content) < 4 THEN Failed("struct.error")
         ELSE IF Len(content) < 4 + 4 * u32_at(content, 0) THEN Failed("struct.error")
         ELSE IF st.current_size # NoSize
         THEN [st EXCEPT !.models =
                  Append(@, ReaderVoxModel(st.current_size,
                                           xyzi_voxels(content, u32_at(content, 0))))]
         ELSE st
    ELSE IF chunk_id = ID_RGBA
    THEN IF Len(content) < 1024 THEN Failed("struct.error")
         ELSE [st EXCEPT !.palette = rgba_palette(content)]
    ELSE st

\* the first loop over the chunks (SIZE, XYZI, RGBA), from chunk k on
RECURSIVE extract_models(_, _, _)
extract_models(chunks, k, st) ==
    IF k > Len(chunks) \/ st.raised # "none"
    THEN st
    ELSE extract_models(chunks, k + 1, extract_step(chunks[k].id, chunks[k].content, st))

(***************************************************************************)
(* Attribute dictionaries and the scene graph chunks.  A decoded string is *)
(* the sequence of its code points; a dict is the sequence of its          *)
(* <<key, value>> pairs in insertion order.                                *)
(***************************************************************************)
\* bytes.decode('ascii', errors='replace'): a byte above 127 becomes U+FFFD
decode_ascii(b) == [i \in 1..Len(b) |-> IF b[i] < 128 THEN b[i] ELSE 65533]

dict_has(d, key) == \E i \in 1..Len(d) : d[i][1] = key

\* d[key] for a key the dict holds
dict_get(d, key) == d[CHOOSE i \in 1..Len(d) : d[i][1] = key][2]

\* d[key] = val: an existing key keeps its place
dict_set(d, key, val) ==
    IF dict_has(d, key)
    THEN [i \in 1..Len(d) |-> IF d[i][1] = key THEN <<key, val>> ELSE d[i]]
    ELSE Append(d, <<key, val>>)

\* one entry of _parse_dict at pos, its key length and key already read:
\* the value, then the dict and the position after the entry
dict_entry_value(content, vpos, key, attrs) ==
    IF Len(Slice(content, vpos, vpos + 4)) < 4
    THEN [raised |-> "struct.error", attrs |-> attrs, pos |-> vpos]
    ELSE [raised |-> "none",
          attrs |-> dict_set(attrs, key,
                       decode_ascii(Slice(content, vpos + 4,
                                          vpos + 4 + unpack_I(Slice(content, vpos, vpos + 4))))),
          pos |-> vpos + 4 + unpack_I(Slice(content, vpos, vpos + 4))]

dict_entry_key(content, pos, key_len, attrs) ==
    dict_entry_value(content, pos + 4 + key_len,
                     decode_ascii(Slice(content, pos + 4, pos + 4 + key_len)), attrs)

dict_entry(content, pos, attrs) ==
    IF Len(Slice(content, pos, pos + 4)) < 4
    THEN [raised |-> "struct.error", attrs |-> attrs, pos |-> pos]
    ELSE dict_entry_key(content, pos, unpack_I(Slice(content, pos, pos + 4)), attrs)

\* the entries loop of _parse_dict: n entries still to read, d the dict and
\* position so far
RECURSIVE parse_dict_entries(_, _, _)
parse_dict_entries(content, n, d) ==
    IF n = 0 \/ d.raised # "none"
    THEN d
    ELSE parse_dict_entries(content, n - 1, dict_entry(content, d.pos, d.attrs))

\* _parse_dict(content, start_pos)
parse_dict(content, start_pos) ==
    IF Len(Slice(content, start_pos, start_pos + 4)) < 4
    THEN [raised |-> "struct.error", attrs |-> << >>, pos |-> start_pos]
    ELSE parse_dict_entries(content, unpack_I(Slice(content, start_pos, start_pos + 4)),
                            [raised |-> "none", attrs |-> << >>, pos |-> start_pos + 4])

\* the characters str.split() and int() treat as white space (ASCII)
Whitespace == {9, 10, 11, 12, 13, 28, 29, 30, 31, 32}

\* str.split(): the maximal runs of characters that are not white space
RECURSIVE str_split(_, _)
str_split(str, word) ==
    IF str = << >>
    THEN IF word = << >> THEN << >> ELSE <<word>>
    ELSE IF Head(str) \in Whitespace
    THEN (IF word = << >> THEN << >> ELSE <<word>>) \o str_split(Tail(str), << >>)
    ELSE str_split(Tail(str), Append(word, Head(str)))

\* str.strip()
RECURSIVE lstrip(_)
lstrip(str) ==
    IF str # << >> /\ Head(str) \in Whitespace THEN lstrip(Tail(str)) ELSE str

RECURSIVE rstrip(_)
rstrip(str) ==
    IF str # << >> /\ str[Len(str)] \in Whitespace
    THEN rstrip(SubSeq(str, 1, Len(str) - 1))
    ELSE str

IsDigit(c) == c \in 48..57

\* the part of a decimal literal after its sign
int_body(str) ==
    IF str # << >> /\ Head(str) \in {43, 45} THEN Tail(str) ELSE str

\* whether int(str) returns: an optional sign, then digits, single
\* underscores allowed between digits, white space allowed around
int_ok(str) ==
    LET t == int_body(rstrip(lstrip(str)))
    IN  /\ t # << >>
        /\ IsDigit(t[1]) /\ IsDigit(t[Len(t)])
        /\ \A i \in 1..Len(t) : IsDigit(t[i]) \/ t[i] = 95
        /\ \A i \in 1..(Len(t) - 1) : ~(t[i] = 95 /\ t[i + 1] = 95)

RECURSIVE digits_value(_, _)
digits_value(t, acc) ==
    IF t = << >> THEN acc
    ELSE IF Head(t) = 95 THEN digits_value(Tail(t), acc)
    ELSE digits_value(Tail(t), 10 * acc + (Head(t) - 48))

\* int(str) where int_ok(str)
int_value(str) ==
    LET u == rstrip(lstrip(str))
        v == digits_value(int_body(u), 0)
    IN  IF u[1] = 45 THEN 0 - v ELSE v

KEY_t == <<95, 116>>
KEY_r == <<95, 114>>
KEY_name == <<95, 110, 97, 109, 101>>

\* translation: the "_t" frame attribute, three integers
translation_of_parts(parts) ==
    IF Len(parts) # 3 THEN [raised |-> "none", value |-> <<0, 0, 0>>]
    ELSE IF \E i \in 1..3 : ~int_ok(parts[i]) THEN Failed("ValueError")
    ELSE [raised |-> "none",
          value |-> <<int_value(parts[1]), int_value(parts[2]), int_value(parts[3])>>]

get_translation(frame_attrs) ==
    IF dict_has(frame_attrs, KEY_t)
    THEN translation_of_parts(str_split(dict_get(frame_attrs, KEY_t), << >>))
    ELSE [raised |-> "none", value |-> <<0, 0, 0>>]

\* rotation: the "_r" frame attribute, an integer
rotation_of_str(str) ==
    IF int_ok(str) THEN [raised |-> "none", value |-> int_value(str)]
    ELSE Failed("ValueError")

get_rotation(frame_attrs) ==
    IF dict_has(frame_attrs, KEY_r)
    THEN rotation_of_str(dict_get(frame_attrs, KEY_r))
    ELSE [raised |-> "none", value |-> 0]

\* attrs.get('_name', '')
get_name(attrs) == IF dict_has(attrs, KEY_name) THEN dict_get(attrs, KEY_name) ELSE << >>

\* the entry the nTRN branch stores in transforms[node_id]
nTRN_entry(node_id, child_node_id, name, translation, rotation) ==
    IF translation.raised # "none" THEN Failed(translation.raised)
    ELSE IF rotation.raised # "none" THEN Failed(rotation.raised)
    ELSE [raised |-> "none", node_id |-> node_id, child_node_id |-> child_node_id,
          translation |-> translation.value, rotation |-> rotation.value, name |-> name]

\* the nTRN branch once the frame dictionary d2 is parsed
nTRN_frame(node_id, child_node_id, name, d2) ==
    IF d2.raised # "none" THEN Failed(d2.raised)
    ELSE nTRN_entry(node_id, child_node_id, name,
                    get_translation(d2.attrs), get_rotation(d2.attrs))

\* the frame dictionary: parsed only if num_frames > 0 and bytes are left
frame_dict(content, num_frames, pos) ==
    IF num_frames > 0 /\ pos < Len(content)
    THEN parse_dict(content, pos)
    ELSE [raised |-> "none", attrs |-> << >>, pos |-> pos]

\* the nTRN branch once the node dictionary d1 is parsed: child_node_id,
\* reserved, layer_id and num_frames follow it
nTRN_after_dict(content, node_id, d1) ==
    IF d1.raised # "none" THEN Failed(d1.raised)
    ELSE IF ~has_u32(content, d1.pos) THEN Failed("struct.error")
    ELSE IF ~has_u32(content, d1.pos + 12) THEN Failed("struct.error")
    ELSE nTRN_frame(node_id, u32_at(content, d1.pos), get_name(d1.attrs),
                    frame_dict(content, u32_at(content, d1.pos + 12), d1.pos + 16))

\* the nTRN branch of read_vox_scene
parse_nTRN(content) ==
    IF ~has_u32(content, 0) THEN Failed("struct.error")
    ELSE nTRN_after_dict(content, u32_at(content, 0), parse_dict(content, 4))

\* the nSHP branch once the node dictionary d1 is parsed; has_model tells
\* whether shape_nodes gets an entry
nSHP_after_dict(content, node_id, d1) ==
    IF d1.raised # "none" THEN Failed(d1.raised)
    ELSE IF ~has_u32(content, d1.pos) THEN Failed("struct.error")
    ELSE IF u32_at(content, d1.pos) > 0
    THEN IF ~has_u32(content, d1.pos + 4) THEN Failed("struct.error")
         ELSE [raised |-> "none", node_id |-> node_id, has_model |-> TRUE,
               model_id |-> u32_at(content, d1.pos + 4)]
    ELSE [raised |-> "none", node_id |-> node_id, has_model |-> FALSE, model_id |-> 0]

\* the nSHP branch of read_vox_scene
parse_nSHP(content) ==
    IF ~has_u32(content, 0) THEN Failed("struct.error")
    ELSE nSHP_after_dict(content, u32_at(content, 0), parse_dict(content, 4))

\* nodes[node_id] = entry: a node_id already present keeps its place
node_set(nodes, entry) ==
    IF \E i \in 1..Len(nodes) : nodes[i].node_id = entry.node_id
    THEN [i \in 1..Len(nodes) |->
             IF nodes[i].node_id = entry.node_id THEN entry ELSE nodes[i]]
    ELSE Append(nodes, entry)

\* what a parsed nTRN entry does to the state (transforms, shape_nodes) of
\* the second loop over the chunks
graph_add_transform(st, t) ==
    IF t.raised # "none" THEN Failed(t.raised)
    ELSE [st EXCEPT !.transforms = node_set(@, t)]

graph_add_shape(st, sh) ==
    IF sh.raised # "none" THEN Failed(sh.raised)
    ELSE IF sh.has_model THEN [st EXCEPT !.shape_nodes = node_set(@, sh)]
    ELSE st

graph_step(chunk_id, content, st) ==
    IF chunk_id = ID_nTRN THEN graph_add_transform(st, parse_nTRN(content))
    ELSE IF chunk_id = ID_nSHP THEN graph_add_shape(st, parse_nSHP(content))
    ELSE st

\* the second loop over the chunks (nTRN, nSHP), from chunk k on
RECURSIVE parse_scene_graph(_, _, _)
parse_scene_graph(chunks, k, st) ==
    IF k > Len(chunks) \/ st.raised # "none"
    THEN st
    ELSE parse_scene_graph(chunks, k + 1, graph_step(chunks[k].id, chunks[k].content, st))

has_shape(shape_nodes, child) ==
    \E i \in 1..Len(shape_nodes) : shape_nodes[i].node_id = child

\* shape_nodes[child] for a child the dict holds
shape_model(shape_nodes, child) ==
    shape_nodes[CHOOSE i \in 1..Len(shape_nodes) : shape_nodes[i].node_id = child].model_id

\* the instance of transform t pointing at model model_id
instance_of(t, model_id) ==
    [model_id |-> model_id, translation |-> t.translation, rotation |-> t.rotation,
     name |-> t.name]

\* a transform resolving whatever model its shape node names
resolves_any_model(t, shape_nodes, n_models) ==
    has_shape(shape_nodes, t.child_node_id)

\* whether transform t points to a shape node whose model exists
resolves(t, shape_nodes, n_models) ==
    /\ has_shape(shape_nodes, t.child_node_id)
    /\ shape_model(shape_nodes, t.child_node_id) < n_models

\* "Build instances": the transforms that point to a shape node
RECURSIVE build_instances(_, _, _, _)
build_instances(transforms, k, shape_nodes, n_models) ==
    IF k > Len(transforms) THEN << >>
    ELSE (IF resolves(transforms[k], shape_nodes, n_models)
          THEN <<instance_of(transforms[k],
                             shape_model(shape_nodes, transforms[k].child_node_id))>>
          ELSE << >>)
         \o build_instances(transforms, k + 1, shape_nodes, n_models)

\* str(i) for i >= 0: the decimal digits as characters
RECURSIVE str_of_nat(_)
str_of_nat(i) ==
    IF i < 10 THEN <<48 + i>> ELSE Append(str_of_nat(i \div 10), 48 + (i % 10))

\* f"Model_{i}"
model_name(i) == <<77, 111, 100, 101, 108, 95>> \o str_of_nat(i)

\* "If no scene graph": one instance at the origin for each model
synthesized_instances_one_based(n_models) ==
    [i \in 1..n_models |->
        [model_id |-> i, translation |-> <<0, 0, 0>>, rotation |-> 0,
         name |-> model_name(i)]]

synthesized_instances(n_models) ==
    [i \in 1..n_models |->
        [model_id |-> i - 1, translation |-> <<0, 0, 0>>, rotation |-> 0,
         name |-> model_name(i - 1)]]

\* the instances returned: the resolved ones, or the synthesized ones when
\* none resolved and there are models
final_instances(resolved, n_models) ==
    IF resolved = << >> /\ n_models > 0 THEN synthesized_instances(n_models) ELSE resolved

\* the VoxScene returned once both loops are done
scene_of(m, g) ==
    IF g.raised # "none" THEN Failed(g.raised)
    ELSE [raised |-> "none", models |-> m.models, palette |-> m.palette,
          instances |-> final_instances(
                            build_instances(g.transforms, 1, g.shape_nodes, Len(m.models)),
                            Len(m.models))]

\* read_vox_scene once the first loop is done
scene_after_models(chunks, m) ==
    IF m.raised # "none" THEN Failed(m.raised)
    ELSE scene_of(m, parse_scene_graph(chunks, 1,
                        [raised |-> "none", transforms |-> << >>, shape_nodes |-> << >>]))

\* read_vox_scene once the chunk list is built
scene_of_chunks(chunks) ==
    scene_after_models(chunks,
        extract_models(chunks, 1,
            [raised |-> "none", models |-> << >>, current_size |-> NoSize,
             palette |-> get_default_palette]))

\* "if version not in (150, 200)": whether the warning is printed, for data
\* of at least 8 bytes
version_warning(data) == u32_at(data, 4) \notin {150, 200}

\* read_vox_scene raising on a version that is not 150 or 200
read_vox_scene_strict_version(data) ==
    IF Slice(data, 0, 4) # ID_VOX THEN Failed("ValueError")
    ELSE IF Len(Slice(data, 4, 8)) < 4 THEN Failed("struct.error")
    ELSE IF version_warning(data) THEN Failed("ValueError")
    ELSE scene_of_chunks(parse_chunks(data, 8))

\* read_vox_scene comparing only the first three bytes with "VOX"
read_vox_scene_magic_prefix(data) ==
    IF Slice(data, 0, 3) # <<86, 79, 88>> THEN Failed("ValueError")
    ELSE IF Len(Slice(data, 4, 8)) < 4 THEN Failed("struct.error")
    ELSE scene_of_chunks(parse_chunks(data, 8))

\* read_vox_scene on the bytes of the file; the version only decides whether
\* a warning is printed
read_vox_scene(data) ==
    IF Slice(data, 0, 4) # ID_VOX THEN Failed("ValueError")
    ELSE IF Len(Slice(data, 4, 8)) < 4 THEN Failed("struct.error")
    ELSE scene_of_chunks(parse_chunks(data, 8))

\* the reader's VoxelData dataclass
VoxelData(size_x, size_y, size_z, vs, palette) ==
    [raised |-> "none", size_x |-> size_x, size_y |-> size_y, size_z |-> size_z,
     voxels |-> vs, palette |-> palette]

\* read_vox_file once read_vox_scene has returned sc: the first model alone
voxel_data_of(sc) ==
    IF sc.raised # "none" THEN Failed(sc.raised)
    ELSE IF sc.models = << >>
    THEN VoxelData(1, 1, 1, << >>,
                   IF DOMAIN sc.palette # {} THEN sc.palette ELSE get_default_palette)
    ELSE VoxelData(sc.models[1].size_x, sc.models[1].size_y, sc.models[1].size_z,
                   sc.models[1].voxels, sc.palette)

\* read_vox_file on the bytes of the file
read_vox_file(data) == voxel_data_of(read_vox_scene(data))

\* get_voxel_color reading palette[color_index]
get_voxel_color_unshifted(vd, color_index) ==
    IF 1 <= color_index /\ color_index <= 255
    THEN vd.palette[color_index]
    ELSE <<255, 255, 255, 255>>

\* get_voxel_color(voxel_data, color_index); the palette is a list of 256
\* entries, palette[0] its first
get_voxel_color(vd, color_index) ==
    IF 1 <= color_index /\ color_index <= 255
    THEN vd.palette[color_index - 1]
    ELSE <<255, 255, 255, 255>>

(***************************************************************************)
(* vox_exporter.py: quantize_colors.  A colour is <<r, g, b>>.  The order  *)
(* of list(set(colors)) is the set's iteration order, which the caller of  *)
(* these operators chooses: unique_colors is that list.                    *)
(***************************************************************************)
\* the elements of a list
Range(seq) == {seq[i] : i \in 1..Len(seq)}

\* the square of color_distance(c1, c2); color_distance is its square root,
\* which orders the same way and is equal only where the squares are
color_distance_sq(c1, c2) ==
    (c1[1] - c2[1]) * (c1[1] - c2[1]) + (c1[2] - c2[2]) * (c1[2] - c2[2])
    + (c1[3] - c2[3]) * (c1[3] - c2[3])

\* sum(c[k] for c in box)
RECURSIVE channel_sum(_, _)
channel_sum(box, k) ==
    IF box = << >> THEN 0 ELSE Head(box)[k] + channel_sum(Tail(box), k)

\* max(c[k] for c in box) - min(c[k] for c in box)
channel_range(box, k) ==
    (CHOOSE hi \in {box[i][k] : i \in 1..Len(box)} :
        \A i \in 1..Len(box) : box[i][k] <= hi)
    - (CHOOSE lo \in {box[i][k] : i \in 1..Len(box)} :
        \A i \in 1..Len(box) : lo <= box[i][k])

\* the channel median_cut sorts by: the first of r, g, b with the largest range
sort_channel(r_range, g_range, b_range) ==
    IF r_range >= g_range /\ r_range >= b_range THEN 1
    ELSE IF g_range >= b_range THEN 2
    ELSE 3

\* sorted(box, key=lambda c: c[k]): the sort is stable, so c goes after the
\* elements whose key is not larger
RECURSIVE sorted_insert(_, _, _)
sorted_insert(sorted_box, c, k) ==
    IF sorted_box = << >> THEN <<c>>
    ELSE IF sorted_box[Len(sorted_box)][k] <= c[k] THEN Append(sorted_box, c)
    ELSE Append(sorted_insert(SubSeq(sorted_box, 1, Len(sorted_box) - 1), c, k),
                sorted_box[Len(sorted_box)])

RECURSIVE sorted_by(_, _, _)
sorted_by(box, n, k) ==
    IF n = 0 THEN << >> ELSE sorted_insert(sorted_by(box, n - 1, k), box[n], k)

\* the average colour a leaf of median_cut returns
average_color(box) ==
    <<channel_sum(box, 1) \div Len(box), channel_sum(box, 2) \div Len(box),
      channel_sum(box, 3) \div Len(box)>>

\* the cut of a box already sorted: the two halves
RECURSIVE median_cut(_, _)
median_cut_halves(sorted_box, mid, depth) ==
    median_cut(SubSeq(sorted_box, 1, mid), depth - 1)
    \o median_cut(SubSeq(sorted_box, mid + 1, Len(sorted_box)), depth - 1)

\* median_cut(box, depth)
median_cut(box, depth) ==
    IF depth = 0 \/ Len(box) <= 1
    THEN IF box = << >> THEN <<<<180, 180, 180>>>> ELSE <<average_color(box)>>
    ELSE median_cut_halves(
             sorted_by(box, Len(box),
                       sort_channel(channel_range(box, 1), channel_range(box, 2),
                                    channel_range(box, 3))),
             Len(box) \div 2, depth)

\* the logarithm rounded up
RECURSIVE ceil_log2(_)
ceil_log2(n) == IF n < 2 THEN 0 ELSE 1 + ceil_log2((n + 1) \div 2)

\* int(math.log2(n)) for n >= 1
RECURSIVE floor_log2(_)
floor_log2(n) == IF n < 2 THEN 0 ELSE 1 + floor_log2(n \div 2)

\* the loop with "dist <= best_dist": the last of the nearest entries wins
RECURSIVE closest_index_last(_, _, _, _, _)
closest_index_last(color, palette, i, best_idx, best_dist) ==
    IF i > Len(palette) THEN best_idx + 1
    ELSE IF best_dist = -1 \/ color_distance_sq(color, palette[i]) <= best_dist
    THEN closest_index_last(color, palette, i + 1, i - 1,
                            color_distance_sq(color, palette[i]))
    ELSE closest_index_last(color, palette, i + 1, best_idx, best_dist)

\* the loop "Find closest palette color" from palette entry i on; best_dist
\* is -1 for float('inf'); the result is best_idx + 1
RECURSIVE closest_index(_, _, _, _, _)
closest_index(color, palette, i, best_idx, best_dist) ==
    IF i > Len(palette) THEN best_idx + 1
    ELSE IF best_dist = -1 \/ color_distance_sq(color, palette[i]) < best_dist
    THEN closest_index(color, palette, i + 1, i - 1, color_distance_sq(color, palette[i]))
    ELSE closest_index(color, palette, i + 1, best_idx, best_dist)

\* the position of colour c in the list unique_colors, from 1
index_of(unique_colors, c) == CHOOSE i \in 1..Len(unique_colors) : unique_colors[i] = c

\* the result of the reduction branch for the palette median_cut returned
quantized(unique_colors, palette) ==
    [palette |-> palette,
     color_to_index |-> [c \in Range(unique_colors) |-> closest_index(c, palette, 1, 0, -1)]]

\* quantize_colors with "len(unique_colors) < max_colors": a list of exactly
\* max_colors colours is reduced
quantize_colors_strict(color_list, unique_colors, max_colors) ==
    IF color_list = << >>
    THEN [palette |-> <<<<180, 180, 180>>>>,
          color_to_index |-> [c \in {<<180, 180, 180>>} |-> 1]]
    ELSE IF Len(unique_colors) < max_colors
    THEN [palette |-> unique_colors,
          color_to_index |-> [c \in Range(unique_colors) |-> index_of(unique_colors, c)]]
    ELSE quantized(unique_colors,
                   SubSeq(median_cut(unique_colors, floor_log2(max_colors)), 1,
                          Min(max_colors,
                              Len(median_cut(unique_colors, floor_log2(max_colors))))))

\* quantize_colors(colors, max_colors); color_list is the argument colors and
\* unique_colors is list(set(colors))
quantize_colors(color_list, unique_colors, max_colors) ==
    IF color_list = << >>
    THEN [palette |-> <<<<180, 180, 180>>>>,
          color_to_index |-> [c \in {<<180, 180, 180>>} |-> 1]]
    ELSE IF Len(unique_colors) <= max_colors
    THEN [palette |-> unique_colors,
          color_to_index |-> [c \in Range(unique_colors) |-> index_of(unique_colors, c)]]
    ELSE quantized(unique_colors,
                   SubSeq(median_cut(unique_colors, floor_log2(max_colors)), 1,
                          Min(max_colors,
                              Len(median_cut(unique_colors, floor_log2(max_colors))))))

(***************************************************************************)
(* vox_importer.py and vox_exporter.py: the metadata an import stores on   *)
(* an object and VoxExporter.export.  An object is                         *)
(*   [metadata |-> << >> or <<[voxels, palette]>>, voxelized |-> the list  *)
(*    _voxelize_object returns for it].                                    *)
(* A collected voxel is <<x, y, z, colour>>, the colour being <<index>>    *)
(* for a preserved voxel and <<r, g, b>> for a voxelized one.              *)
(***************************************************************************)
\* store_vox_metadata_for_model followed by get_vox_metadata: the voxels and
\* the palette as lists
store_vox_metadata_for_model(model, palette) ==
    [voxels |-> model.voxels, palette |-> [k \in 1..256 |-> palette[k - 1]]]

\* the object import_vox creates for one instance; mesh_voxels is what
\* _voxelize_object would return for its mesh
imported_object(models, palette, instance, mesh_voxels) ==
    [metadata |-> <<store_vox_metadata_for_model(models[instance.model_id + 1], palette)>>,
     voxelized |-> mesh_voxels]

\* the loop of import_vox over several instances, from instance k on
RECURSIVE imported_objects(_, _, _, _)
imported_objects(sc, k, mesh_voxels, objs) ==
    IF k > Len(sc.instances) THEN objs
    ELSE IF sc.instances[k].model_id >= Len(sc.models)
    THEN imported_objects(sc, k + 1, mesh_voxels, objs)
    ELSE imported_objects(sc, k + 1, mesh_voxels,
             Append(objs, imported_object(sc.models, sc.palette, sc.instances[k],
                                          mesh_voxels)))

\* whether idx is an index the list of three taken by mat[row][idx] has;
\* a negative idx counts from the end of the list
index_ok(idx) == -3 <= idx /\ idx < 3

\* the position (1..3) of mat[row][idx]
list_index(idx) == IF idx < 0 THEN idx + 4 ELSE idx + 1

\* the list row after row[idx] = sign
row_set(row, idx, sign) == [row EXCEPT ![list_index(idx)] = sign]

\* the decoding of apply_vox_rotation once idx1, idx2, idx3 and the signs are
\* known: the three assignments to mat, of which the first one with an index
\* outside the list raises IndexError
rotation_mat(idx1, idx2, idx3, sign1, sign2, sign3) ==
    IF ~index_ok(idx1) \/ ~index_ok(idx2) \/ ~index_ok(idx3)
    THEN [raised |-> "IndexError", mat |-> << >>]
    ELSE [raised |-> "none",
          mat |-> <<row_set(<<0, 0, 0>>, idx1, sign1),
                    row_set(<<0, 0, 0>>, idx2, sign2),
                    row_set(<<0, 0, 0>>, idx3, sign3)>>]

\* apply_vox_rotation(obj, rotation_index) for rotation_index >= 0: the
\* matrix handed to mathutils.Matrix, or mat = << >> when the function
\* returns at once and leaves the object's rotation alone
apply_vox_rotation(rotation_index) ==
    IF rotation_index = 0 THEN [raised |-> "none", mat |-> << >>]
    ELSE rotation_mat(rotation_index % 4,
                      (rotation_index \div 4) % 4,
                      3 - (rotation_index % 4) - ((rotation_index \div 4) % 4),
                      IF (rotation_index \div 16) % 2 = 1 THEN -1 ELSE 1,
                      IF (rotation_index \div 32) % 2 = 1 THEN -1 ELSE 1,
                      IF (rotation_index \div 64) % 2 = 1 THEN -1 ELSE 1)

\* import_vox on a scene that was read: the objects that carry metadata.  The
\* instances of the scenes imported here have rotation 0, for which
\* apply_vox_rotation returns at once.
import_vox(sc, mesh_voxels) ==
    IF Len(sc.instances) = 0 THEN << >>
    ELSE IF Len(sc.instances) = 1
    THEN <<imported_object(sc.models, sc.palette, sc.instances[1], mesh_voxels)>>
    ELSE imported_objects(sc, 1, mesh_voxels, << >>)

\* max(0, min(255, n))
clamp(n) == Max(0, Min(255, n))

\* "if metadata and 'voxels' in metadata and metadata.get('palette')"
has_preserved_data(obj, preserve_vox_data) ==
    /\ preserve_vox_data
    /\ obj.metadata # << >>
    /\ obj.metadata[1].palette # << >>

\* the voxels of a metadata as collected voxels
metadata_voxels(vs) ==
    [i \in 1..Len(vs) |-> <<vs[i][1], vs[i][2], vs[i][3], <<vs[i][4]>>>>]

\* the loop body keeping the palette of the first object with metadata
collect_object_first_palette(obj, preserve_vox_data, st) ==
    IF has_preserved_data(obj, preserve_vox_data)
    THEN [all_voxels |-> st.all_voxels \o metadata_voxels(obj.metadata[1].voxels),
          original_palette |-> IF st.original_palette = << >>
                               THEN obj.metadata[1].palette
                               ELSE st.original_palette,
          use_original_indices |-> TRUE]
    ELSE [st EXCEPT !.all_voxels = @ \o obj.voxelized]

\* the body of the loop "for obj in objects"
collect_object(obj, preserve_vox_data, st) ==
    IF has_preserved_data(obj, preserve_vox_data)
    THEN [all_voxels |-> st.all_voxels \o metadata_voxels(obj.metadata[1].voxels),
          original_palette |-> obj.metadata[1].palette,
          use_original_indices |-> TRUE]
    ELSE [st EXCEPT !.all_voxels = @ \o obj.voxelized]

\* the loop "for obj in objects" from object k on
RECURSIVE collect(_, _, _, _)
collect(objs, k, preserve_vox_data, st) ==
    IF k > Len(objs) THEN st
    ELSE collect(objs, k + 1, preserve_vox_data,
                 collect_object(objs[k], preserve_vox_data, st))

\* all_voxels, original_palette and use_original_indices after the loop
collected(objs, preserve_vox_data) ==
    collect(objs, 1, preserve_vox_data,
            [all_voxels |-> << >>, original_palette |-> << >>,
             use_original_indices |-> FALSE])

\* min(v[k] for v in all_voxels), max(v[k] for v in all_voxels)
min_coord(all_voxels, k) ==
    CHOOSE lo \in {all_voxels[i][k] : i \in 1..Len(all_voxels)} :
        \A i \in 1..Len(all_voxels) : lo <= all_voxels[i][k]

max_coord(all_voxels, k) ==
    CHOOSE hi \in {all_voxels[i][k] : i \in 1..Len(all_voxels)} :
        \A i \in 1..Len(all_voxels) : all_voxels[i][k] <= hi

\* size_x, size_y, size_z
export_size(all_voxels) ==
    [k \in 1..3 |-> max_coord(all_voxels, k) - min_coord(all_voxels, k) + 1]

\* the voxels shifted by the minimum and clamped: (nx, ny, nz, colour)
normalized_voxels(all_voxels) ==
    [i \in 1..Len(all_voxels) |->
        <<clamp(all_voxels[i][1] - min_coord(all_voxels, 1)),
          clamp(all_voxels[i][2] - min_coord(all_voxels, 2)),
          clamp(all_voxels[i][3] - min_coord(all_voxels, 3)),
          all_voxels[i][4]>>]

\* the palette after "for i, (r, g, b, a) in enumerate(original_palette):
\* if i < 255: set_color(i + 1, r, g, b, a)"; set_color accepts every index
\* of 1..255
original_palette_set(original_palette) ==
    [n \in 0..255 |->
        IF 1 <= n /\ n <= Len(original_palette) /\ n - 1 < 255
        THEN original_palette[n]
        ELSE writer_default_palette[n]]

\* the body of the loop of the preserved-indices branch on the normalized
\* voxel v; comparing an (r, g, b) tuple with 1 raises TypeError
preserved_step(v, st) ==
    IF st.raised # "none" \/ <<v[1], v[2], v[3]>> \in st.seen THEN st
    ELSE IF Len(v[4]) # 1
    THEN [st EXCEPT !.raised = "TypeError", !.seen = @ \cup {<<v[1], v[2], v[3]>>}]
    ELSE [raised |-> "none",
          voxels |-> add_voxel(st.voxels, v[1], v[2], v[3],
                               IF 1 <= v[4][1] /\ v[4][1] <= 255 THEN v[4][1] ELSE 1).voxels,
          seen |-> st.seen \cup {<<v[1], v[2], v[3]>>}]

\* the loop of the preserved-indices branch from voxel i on
RECURSIVE add_preserved(_, _, _)
add_preserved(nvs, i, st) ==
    IF i > Len(nvs) THEN st
    ELSE add_preserved(nvs, i + 1, preserved_step(nvs[i], st))

\* "Remove duplicates (keep first occurrence)" from voxel i on
RECURSIVE unique_voxels(_, _, _, _)
unique_voxels(nvs, i, seen, acc) ==
    IF i > Len(nvs) THEN acc
    ELSE IF <<nvs[i][1], nvs[i][2], nvs[i][3]>> \in seen
    THEN unique_voxels(nvs, i + 1, seen, acc)
    ELSE unique_voxels(nvs, i + 1, seen \cup {<<nvs[i][1], nvs[i][2], nvs[i][3]>>},
                       Append(acc, nvs[i]))

\* colors = [v[3] for v in unique_voxels]
voxel_colors(uvs) == [i \in 1..Len(uvs) |-> uvs[i][4]]

\* the colours the quantized branch hands to quantize_colors; none when the
\* export takes another way
export_colors(objs, preserve_vox_data) ==
    IF collected(objs, preserve_vox_data).all_voxels = << >>
       \/ collected(objs, preserve_vox_data).use_original_indices
    THEN << >>
    ELSE voxel_colors(unique_voxels(
             normalized_voxels(collected(objs, preserve_vox_data).all_voxels),
             1, {}, << >>))

\* the palette after "for i, (r, g, b) in enumerate(palette):
\* set_color(i + 1, r, g, b, 255)" for a palette of at most 255 colours
quantized_palette_set(palette) ==
    [n \in 0..255 |->
        IF 1 <= n /\ n <= Len(palette) THEN Append(palette[n], 255)
        ELSE writer_default_palette[n]]

\* color_map.get(color, 1)
color_map_get(color_map, color) ==
    IF color \in DOMAIN color_map THEN color_map[color] ELSE 1

\* the loop "Add voxels" of the quantized branch from voxel i on
RECURSIVE add_quantized(_, _, _, _)
add_quantized(uvs, i, color_map, st) ==
    IF i > Len(uvs) \/ st.raised # "none" THEN st
    ELSE add_quantized(uvs, i + 1, color_map,
             add_voxel(st.voxels, uvs[i][1], uvs[i][2], uvs[i][3],
                       color_map_get(color_map, uvs[i][4])))

\* the end of both branches: writer.add_model(model); writer.write(filepath).
\* data is << >> when no file was written.
export_write(sz, built, cols) ==
    IF built.raised # "none"
    THEN [raised |-> built.raised, size |-> sz, voxels |-> built.voxels,
          colors |-> cols, data |-> << >>]
    ELSE [raised |-> write(<<[size |-> sz, voxels |-> built.voxels]>>, cols).raised,
          size |-> sz, voxels |-> built.voxels, colors |-> cols,
          data |-> write(<<[size |-> sz, voxels |-> built.voxels]>>, cols).data]

\* the quantized branch once quantize_colors has returned q
export_quantized(sz, uvs, q) ==
    export_write(sz,
                 add_quantized(uvs, 1, q.color_to_index,
                               [voxels |-> << >>, raised |-> "none"]),
                 quantized_palette_set(q.palette))

\* the export writing a file with an empty model when no voxel was collected
export_collected_empty_file(c, unique_colors) ==
    IF c.all_voxels = << >>
    THEN export_write(<<1, 1, 1>>, [raised |-> "none", voxels |-> << >>],
                      writer_default_palette)
    ELSE IF c.use_original_indices /\ c.original_palette # << >>
    THEN export_write(export_size(c.all_voxels),
                      add_preserved(normalized_voxels(c.all_voxels), 1,
                                    [raised |-> "none", voxels |-> << >>, seen |-> {}]),
                      original_palette_set(c.original_palette))
    ELSE export_quantized(export_size(c.all_voxels),
                          unique_voxels(normalized_voxels(c.all_voxels), 1, {}, << >>),
                          quantize_colors(
                              voxel_colors(unique_voxels(normalized_voxels(c.all_voxels),
                                                         1, {}, << >>)),
                              unique_colors, 255))

\* export once the voxels are collected in c; unique_colors is the order of
\* list(set(colors)) inside quantize_colors
export_collected(c, unique_colors) ==
    IF c.all_voxels = << >>
    THEN [raised |-> "ValueError", data |-> << >>]
    ELSE IF c.use_original_indices /\ c.original_palette # << >>
    THEN export_write(export_size(c.all_voxels),
                      add_preserved(normalized_voxels(c.all_voxels), 1,
                                    [raised |-> "none", voxels |-> << >>, seen |-> {}]),
                      original_palette_set(c.original_palette))
    ELSE export_quantized(export_size(c.all_voxels),
                          unique_voxels(normalized_voxels(c.all_voxels), 1, {}, << >>),
                          quantize_colors(
                              voxel_colors(unique_voxels(normalized_voxels(c.all_voxels),
                                                         1, {}, << >>)),
                              unique_colors, 255))

\* VoxExporter(preserve_vox_data=...).export(objects, filepath)
export(objs, preserve_vox_data, unique_colors) ==
    export_collected(collected(objs, preserve_vox_data), unique_colors)

\* VoxExporter.__init__: self.max_size = min(max_size, 256)
exporter_max_size(max_size) == Min(max_size, 256)

\* int(math.ceil(extent / voxel_size)) + 1 for an extent >= 0 and a voxel
\* size > 0, both counted in one unit of length.  The quotient of the two
\* floats is rounded: when the extent is a multiple of the voxel size it may
\* come out just above the integer, and ceil then gives one more.
grid_dim(extent, voxel_size) ==
    IF extent = 0 THEN {1}
    ELSE IF extent % voxel_size = 0
    THEN {extent \div voxel_size + 1, extent \div voxel_size + 2}
    ELSE {extent \div voxel_size + 2}

RECURSIVE gcd(_, _)
gcd(a, b) == IF b = 0 THEN a ELSE gcd(b, a % b)

RECURSIVE is_power_of_two(_)
is_power_of_two(n) == n = 1 \/ (n % 2 = 0 /\ is_power_of_two(n \div 2))

\* whether the float max_size / max_dim is the exact quotient
exact_ratio(max_size, max_dim) == is_power_of_two(max_dim \div gcd(max_size, max_dim))

\* int(grid * scale_factor) with scale_factor = max_size / max_dim in floats:
\* the truncated product.  When grid * max_size / max_dim is an integer k and
\* the quotient max_size / max_dim is not exact, the rounded product is k or
\* just below k, and int() gives k or k - 1 (int(49 * (1 / 49)) is 0).
scaled_dim(grid, max_size, max_dim) ==
    IF (grid * max_size) % max_dim # 0 \/ exact_ratio(max_size, max_dim)
    THEN {(grid * max_size) \div max_dim}
    ELSE {(grid * max_size) \div max_dim - 1, (grid * max_size) \div max_dim}

\* "Limit to max_size" testing max_dim > max_size + 1
limited_grid_off_by_one(grid, max_size) ==
    IF Max(grid[1], Max(grid[2], grid[3])) > max_size + 1
    THEN {<<x, y, z>> : x \in scaled_dim(grid[1], max_size, Max(grid[1], Max(grid[2], grid[3]))),
                        y \in scaled_dim(grid[2], max_size, Max(grid[1], Max(grid[2], grid[3]))),
                        z \in scaled_dim(grid[3], max_size, Max(grid[1], Max(grid[2], grid[3])))}
    ELSE {grid}

\* "Limit to max_size": the grid dimensions after the scaling step
limited_grid(grid, max_size) ==
    IF Max(grid[1], Max(grid[2], grid[3])) > max_size
    THEN {<<x, y, z>> : x \in scaled_dim(grid[1], max_size, Max(grid[1], Max(grid[2], grid[3]))),
                        y \in scaled_dim(grid[2], max_size, Max(grid[1], Max(grid[2], grid[3]))),
                        z \in scaled_dim(grid[3], max_size, Max(grid[1], Max(grid[2], grid[3])))}
    ELSE {grid}

\* the grid cells in the order of the loops over gx, gy and gz
grid_cells(grid) ==
    [i \in 1..(grid[1] * grid[2] * grid[3]) |->
        <<(i - 1) \div (grid[2] * grid[3]), ((i - 1) \div grid[3]) % grid[2], (i - 1) % grid[3]>>]

\* the voxels _voxelize_object returns when _check_voxel fills the cells of
\* the set filled, all with one colour
voxelized_cells(grid, filled, color) ==
    [k \in 1..Len(SelectSeq(grid_cells(grid), LAMBDA c : c \in filled)) |->
        Append(SelectSeq(grid_cells(grid), LAMBDA c : c \in filled)[k], color)]

\* the lists a set can be iterated as
Orders(S) == {order \in [1..Cardinality(S) -> S] : \A c \in S : \E i \in DOMAIN order : order[i] = c}

(***************************************************************************)
(* The codec as a state machine: a script builds one VoxModel and the      *)
(* writer's palette call by call, adds the model to a VoxWriter and writes *)
(* the file; read_vox_scene reads it back, import_vox turns the scene into *)
(* objects and VoxExporter.export writes them to a file again.             *)
(***************************************************************************)
NoScene == [raised |-> "not read"]

NoQuant == [stage |-> "idle"]

NoVoxelData == [raised |-> "not read"]

NoResult == [raised |-> "not called"]

\* sizes handed to the VoxModel constructor
Sizes == {<<2, 2, 2>>, <<256, 1, 66051>>, <<-1, 1, 1>>}

\* the boundary values of a coordinate and of a colour index
CoordIn == {-1, 0, 255, 256}

IndexIn == {0, 1, 255, 256}

\* arguments of add_voxel tried at every step: the voxel (0,0,0,1) with one
\* argument moved to each boundary value, and three with all arguments moved
VoxelIn ==
    {[<<0, 0, 0, 1>> EXCEPT ![k] = v] : k \in 1..3, v \in CoordIn}
    \cup {[<<0, 0, 0, 1>> EXCEPT ![4] = v] : v \in IndexIn}
    \cup {<<255, 255, 255, 255>>, <<-1, -1, -1, 0>>, <<256, 256, 256, 256>>}

\* arguments of set_color tried at every step; the colour set at index 2 has
\* a channel no byte can hold
ColourIn ==
    {<<1, 1, 2, 3, 4>>, <<255, 9, 8, 7, 6>>, <<2, 256, 0, 0, 255>>,
     <<0, 1, 2, 3, 4>>, <<256, 1, 2, 3, 4>>}

\* what _voxelize_object returns for the mesh of an imported object
MeshVoxelsIn == {<<<<0, 0, 0, <<255, 0, 0>>>>>>}

Init ==
    /\ pc = "build"
    /\ size \in Sizes
    /\ voxels = << >>
    /\ colors = writer_default_palette
    /\ call = "none"
    /\ args = << >>
    /\ raised = "none"
    /\ file = << >>
    /\ scene = NoScene
    /\ objects = << >>
    /\ quant = NoQuant
    /\ voxel_data = NoVoxelData
    /\ result = NoResult

\* model.add_voxel(x, y, z, color_index)
AddVoxel(x, y, z, color_index) ==
    /\ pc = "build"
    /\ Len(voxels) < MaxVoxels
    /\ LET r == add_voxel(voxels, x, y, z, color_index)
       IN  /\ voxels' = r.voxels
           /\ raised' = r.raised
    /\ call' = "add_voxel"
    /\ args' = <<x, y, z, color_index>>
    /\ UNCHANGED <<pc, size, colors, file, scene, objects, quant, voxel_data, result>>

\* writer.palette.set_color(index, r, g, b, a)
SetColor(index, r, g, b, a) ==
    /\ pc = "build"
    /\ LET res == set_color(colors, index, r, g, b, a)
       IN  /\ colors' = res.colors
           /\ raised' = res.raised
    /\ call' = "set_color"
    /\ args' = <<index, r, g, b, a>>
    /\ UNCHANGED <<pc, size, voxels, file, scene, objects, quant, voxel_data, result>>

\* writer.add_model(model); writer.write(filepath)
Write ==
    /\ pc = "build"
    /\ LET w == write(<<[size |-> size, voxels |-> voxels]>>, colors)
       IN  /\ file' = w.data
           /\ raised' = w.raised
           /\ pc' = IF w.raised = "none" THEN "written" ELSE "write failed"
    /\ call' = "write"
    /\ args' = << >>
    /\ UNCHANGED <<size, voxels, colors, scene, objects, quant, voxel_data, result>>

\* scene = read_vox_scene(filepath), of the file the script wrote, of a file
\* found on disk, or of the file an export wrote
ReadScene ==
    /\ pc \in {"written", "write failed", "file", "exported"}
    /\ scene' = read_vox_scene(file)
    /\ raised' = scene'.raised
    /\ call' = "read_vox_scene"
    /\ args' = << >>
    /\ pc' = CASE pc = "written" -> "read"
               [] pc = "write failed" -> "read partial"
               [] pc = "file" -> "file read"
               [] pc = "exported" -> "reread"
    /\ UNCHANGED <<size, voxels, colors, file, objects, quant, voxel_data, result>>

\* import_vox(filepath) once read_vox_scene has returned the scene
Import(mesh_voxels) ==
    /\ pc \in {"read", "read partial"}
    /\ scene.raised = "none"
    /\ objects' = import_vox(scene, mesh_voxels)
    /\ raised' = "none"
    /\ call' = "import_vox"
    /\ args' = << >>
    /\ pc' = "imported"
    /\ UNCHANGED <<size, voxels, colors, file, scene, quant, voxel_data, result>>

\* VoxExporter(preserve_vox_data=...).export(objects, filepath); size, voxels
\* and colors become the model and the palette the exporter built, and the
\* file is replaced when one is written
Export(preserve_vox_data, unique_colors) ==
    /\ pc \in {"imported", "scene"}
    /\ raised' = export(objects, preserve_vox_data, unique_colors).raised
    /\ IF raised' = "ValueError"
       THEN UNCHANGED <<size, voxels, colors>>
       ELSE /\ size' = export(objects, preserve_vox_data, unique_colors).size
            /\ voxels' = export(objects, preserve_vox_data, unique_colors).voxels
            /\ colors' = export(objects, preserve_vox_data, unique_colors).colors
    /\ file' = IF raised' = "none"
               THEN export(objects, preserve_vox_data, unique_colors).data
               ELSE file
    /\ call' = "export"
    /\ args' = <<preserve_vox_data>>
    /\ pc' = IF raised' = "none" THEN "exported" ELSE "export failed"
    /\ UNCHANGED <<scene, objects, quant, voxel_data, result>>

\* the export with each setting of preserve_vox_data and each iteration order
\* of the colour set inside quantize_colors
ExportAny ==
    \E preserve_vox_data \in BOOLEAN :
        \E unique_colors \in Orders(Range(export_colors(objects, preserve_vox_data))) :
            Export(preserve_vox_data, unique_colors)

Next ==
    \/ \E v \in VoxelIn : AddVoxel(v[1], v[2], v[3], v[4])
    \/ \E c \in ColourIn : SetColor(c[1], c[2], c[3], c[4], c[5])
    \/ Write
    \/ ReadScene
    \/ \E mesh_voxels \in MeshVoxelsIn : Import(mesh_voxels)
    \/ ExportAny

Spec == Init /\ [][Next]_vars

(***************************************************************************)
(* The export from a scene of objects: imported ones that carry metadata   *)
(* and meshes that are voxelized.                                          *)
(***************************************************************************)
\* a palette as the importer stores it: 256 entries
MetadataPalette == [k \in 1..256 |-> <<k - 1, 255 - (k - 1), 7, 255>>]

\* the palette stored with an object imported from another file
OtherPalette == [k \in 1..256 |-> <<3, k - 1, 255 - (k - 1), 255>>]

\* the objects of a scene: three that were imported (one model away from
\* coordinate 0, one holding color index 0 and two voxels at one place, one
\* of a model without voxels), one whose vox_metadata property was written
\* with a coordinate beyond 255 (get_vox_metadata takes whatever JSON the
\* property holds) and three meshes, with what _voxelize_object returns for
\* each
ObjectIn ==
    {[metadata |-> <<[voxels |-> << >>, palette |-> MetadataPalette]>>, voxelized |-> << >>],
     [metadata |-> <<[voxels |-> <<<<0, 2, 0, 5>>, <<300, 2, 0, 6>>>>, palette |-> MetadataPalette]>>,
      voxelized |-> << >>]}
    \cup
    {[metadata |-> <<[voxels |-> <<<<1, 0, 0, 5>>>>, palette |-> MetadataPalette]>>,
      voxelized |-> <<<<0, 0, 0, <<255, 0, 0>>>>>>],
     [metadata |-> <<[voxels |-> <<<<1, 0, 0, 0>>, <<1, 0, 0, 7>>, <<0, 0, 0, 9>>>>,
                     palette |-> OtherPalette]>>,
      voxelized |-> << >>],
     [metadata |-> << >>, voxelized |-> <<<<0, 0, 0, <<255, 0, 0>>>>>>],
     [metadata |-> << >>,
      voxelized |-> <<<<0, 0, 0, <<0, 0, 255>>>>, <<0, 1, 0, <<255, 0, 0>>>>>>],
     [metadata |-> << >>, voxelized |-> <<<<1, 0, 2, <<0, 255, 0>>>>>>]}

\* the lists of at most n elements of S
RECURSIVE ListsUpTo(_, _)
ListsUpTo(S, n) ==
    IF n = 0 THEN {<< >>}
    ELSE ListsUpTo(S, n - 1)
         \cup {Append(l, e) : l \in {m \in ListsUpTo(S, n - 1) : Len(m) = n - 1}, e \in S}

InitExport ==
    /\ pc = "scene"
    /\ objects \in ListsUpTo(ObjectIn, MaxObjects)
    /\ size = << >>
    /\ voxels = << >>
    /\ colors = writer_default_palette
    /\ call = "none"
    /\ args = << >>
    /\ raised = "none"
    /\ file = << >>
    /\ scene = NoScene
    /\ quant = NoQuant
    /\ voxel_data = NoVoxelData
    /\ result = NoResult

NextExport ==
    \/ ExportAny
    \/ ReadScene

SpecExport == InitExport /\ [][NextExport]_vars

(***************************************************************************)
(* The reader on files found on disk: a MAIN chunk around a list of chunks.*)
(***************************************************************************)
\* the chunks a file is made of: two SIZE, an XYZI with one voxel and an
\* empty one, a transform node 0 over child 1, a shape node 1 with model 0,
\* and a chunk the reader does not know
ChunkIn ==
    {[id |-> ID_SIZE, content |-> <<2, 0, 0, 0, 2, 0, 0, 0, 2, 0, 0, 0>>],
     [id |-> ID_SIZE, content |-> <<1, 0, 0, 0, 3, 0, 0, 0, 1, 0, 0, 0>>],
     [id |-> ID_XYZI, content |-> <<1, 0, 0, 0, 1, 1, 0, 9>>],
     [id |-> ID_XYZI, content |-> <<0, 0, 0, 0>>],
     [id |-> ID_nTRN,
      content |-> <<0, 0, 0, 0, 1, 0, 0, 0, 5, 0, 0, 0, 95, 110, 97, 109, 101,
                    1, 0, 0, 0, 65, 1, 0, 0, 0, 255, 255, 255, 0, 0, 0, 0, 0,
                    1, 0, 0, 0, 2, 0, 0, 0, 2, 0, 0, 0, 95, 116, 5, 0, 0, 0,
                    49, 32, 50, 32, 51, 2, 0, 0, 0, 95, 114, 1, 0, 0, 0, 52>>],
     [id |-> ID_nSHP,
      content |-> <<1, 0, 0, 0, 0, 0, 0, 0, 1, 0, 0, 0, 0, 0, 0, 0, 0, 0, 0, 0>>],
     [id |-> <<78, 79, 84, 69>>, content |-> <<1, 2, 3>>]}

\* the bytes of the chunks of a list, one after the other
RECURSIVE chunk_bytes(_)
chunk_bytes(chunks) ==
    IF chunks = << >> THEN << >>
    ELSE to_bytes(Head(chunks).id, Head(chunks).content, << >>) \o chunk_bytes(Tail(chunks))

\* a file holding the chunks inside MAIN
file_of(chunks) == file_header \o to_bytes(ID_MAIN, << >>, chunk_bytes(chunks))

InitReader ==
    /\ pc = "file"
    /\ file \in {file_of(chunks) : chunks \in ListsUpTo(ChunkIn, MaxChunks)}
    /\ size = << >>
    /\ voxels = << >>
    /\ colors = writer_default_palette
    /\ call = "none"
    /\ args = << >>
    /\ raised = "none"
    /\ scene = NoScene
    /\ objects = << >>
    /\ quant = NoQuant
    /\ voxel_data = NoVoxelData
    /\ result = NoResult

NextReader == ReadScene

SpecReader == InitReader /\ [][NextReader]_vars

(***************************************************************************)
(* The reader on files whose header or end is unusual: another version,    *)
(* another magic, bytes of a cut chunk header after the last chunk.        *)
(***************************************************************************)
\* versions other than VOX_VERSION: one accepted, two that are warned about
VersionIn == {200, 999, 0}

\* first bytes that are not "VOX ": "VOX" and a zero byte, "vox ", "VOX"
MagicIn == {<<86, 79, 88, 0>>, <<118, 111, 120, 32>>, <<86, 79, 88>>}

\* what is left of a chunk header cut after 1, 10 and 11 bytes
TailIn ==
    {<<83>>, <<83, 73, 90, 69, 12, 0, 0, 0, 0, 0>>,
     <<88, 89, 90, 73, 4, 0, 0, 0, 0, 0, 0>>}

\* a file with the given first bytes and version, the chunks inside MAIN, and
\* the tail after them
file_with(magic, version, chunks, tail) ==
    magic \o pack_I(version) \o to_bytes(ID_MAIN, << >>, chunk_bytes(chunks)) \o tail

DamagedFileIn ==
    {file_with(ID_VOX, version, chunks, << >>) :
        version \in VersionIn \cup {VOX_VERSION}, chunks \in ListsUpTo(ChunkIn, MaxDamaged)}
    \cup {file_with(magic, VOX_VERSION, chunks, << >>) :
             magic \in MagicIn, chunks \in ListsUpTo(ChunkIn, MaxDamaged)}
    \cup {file_with(ID_VOX, VOX_VERSION, chunks, tail) :
             tail \in TailIn, chunks \in ListsUpTo(ChunkIn, MaxDamaged)}
    \cup {<< >>, <<86, 79, 88>>, ID_VOX, <<86, 79, 88, 32, 150, 0>>}

InitDamaged ==
    /\ pc = "file"
    /\ file \in DamagedFileIn
    /\ size = << >>
    /\ voxels = << >>
    /\ colors = writer_default_palette
    /\ call = "none"
    /\ args = << >>
    /\ raised = "none"
    /\ scene = NoScene
    /\ objects = << >>
    /\ quant = NoQuant
    /\ voxel_data = NoVoxelData
    /\ result = NoResult

SpecDamaged == InitDamaged /\ [][NextReader]_vars

(***************************************************************************)
(* The reader on files with a scene graph: no model, one or two, followed  *)
(* by transform and shape nodes.                                           *)
(***************************************************************************)
\* the SIZE and XYZI chunks the files start with
ModelChunksIn ==
    {<< >>,
     <<[id |-> ID_SIZE, content |-> <<2, 0, 0, 0, 2, 0, 0, 0, 2, 0, 0, 0>>],
       [id |-> ID_XYZI, content |-> <<1, 0, 0, 0, 1, 1, 0, 9>>]>>,
     <<[id |-> ID_SIZE, content |-> <<2, 0, 0, 0, 2, 0, 0, 0, 2, 0, 0, 0>>],
       [id |-> ID_XYZI, content |-> <<1, 0, 0, 0, 1, 1, 0, 9>>],
       [id |-> ID_SIZE, content |-> <<1, 0, 0, 0, 3, 0, 0, 0, 1, 0, 0, 0>>],
       [id |-> ID_XYZI, content |-> <<0, 0, 0, 0>>]>>}

\* the nodes: transform 0 named "A" over child 1 with _t = "1 2 3" and
\* _r = "4"; transform 0 over child 3 and transform 2 over child 1, both
\* without name and frame; shape 1 with model 0; shape 3 with model 1; shape 1
\* without a model; shape 3 with the models 0 and 1
GraphChunkIn ==
    {[id |-> ID_nTRN,
      content |-> <<0, 0, 0, 0, 1, 0, 0, 0, 5, 0, 0, 0, 95, 110, 97, 109, 101,
                    1, 0, 0, 0, 65, 1, 0, 0, 0, 255, 255, 255, 0, 0, 0, 0, 0,
                    1, 0, 0, 0, 2, 0, 0, 0, 2, 0, 0, 0, 95, 116, 5, 0, 0, 0,
                    49, 32, 50, 32, 51, 2, 0, 0, 0, 95, 114, 1, 0, 0, 0, 52>>],
     [id |-> ID_nTRN,
      content |-> <<0, 0, 0, 0, 0, 0, 0, 0, 3, 0, 0, 0, 0, 0, 0, 0, 0, 0, 0, 0,
                    0, 0, 0, 0>>],
     [id |-> ID_nTRN,
      content |-> <<2, 0, 0, 0, 0, 0, 0, 0, 1, 0, 0, 0, 0, 0, 0, 0, 0, 0, 0, 0,
                    0, 0, 0, 0>>],
     [id |-> ID_nSHP,
      content |-> <<1, 0, 0, 0, 0, 0, 0, 0, 1, 0, 0, 0, 0, 0, 0, 0, 0, 0, 0, 0>>],
     [id |-> ID_nSHP,
      content |-> <<3, 0, 0, 0, 0, 0, 0, 0, 1, 0, 0, 0, 1, 0, 0, 0, 0, 0, 0, 0>>],
     [id |-> ID_nSHP, content |-> <<1, 0, 0, 0, 0, 0, 0, 0, 0, 0, 0, 0>>],
     [id |-> ID_nSHP,
      content |-> <<3, 0, 0, 0, 0, 0, 0, 0, 2, 0, 0, 0, 0, 0, 0, 0, 0, 0, 0, 0,
                    1, 0, 0, 0, 0, 0, 0, 0>>]}

InitGraph ==
    /\ pc = "file"
    /\ file \in {file_of(models \o nodes) :
                    models \in ModelChunksIn, nodes \in ListsUpTo(GraphChunkIn, MaxGraph)}
    /\ size = << >>
    /\ voxels = << >>
    /\ colors = writer_default_palette
    /\ call = "none"
    /\ args = << >>
    /\ raised = "none"
    /\ scene = NoScene
    /\ objects = << >>
    /\ quant = NoQuant
    /\ voxel_data = NoVoxelData
    /\ result = NoResult

SpecGraph == InitGraph /\ [][NextReader]_vars

(***************************************************************************)
(* _voxelize_object on a mesh with a bounding box of the given extent.     *)
(* _check_voxel is not modelled: which cells it fills is a choice.         *)
(***************************************************************************)
\* extents of the bounding box on an axis, and voxel sizes, in one unit
ExtentIn == {0, 2, 5}

VoxelSizeIn == {1, 2}

\* the max_size handed to VoxExporter
MaxSizeIn == {1, 2, 4, 256, 300}

\* the cells _check_voxel fills: none, the first, the last, all
FilledIn(grid) ==
    {{}, {<<0, 0, 0>>}, {<<grid[1] - 1, grid[2] - 1, grid[3] - 1>>},
     {<<x, y, z>> : x \in 0..(grid[1] - 1), y \in 0..(grid[2] - 1), z \in 0..(grid[3] - 1)}}

\* VoxExporter(voxel_size, max_size)._voxelize_object(obj) for a mesh whose
\* bounding box has the extent given; grid is (grid_x, grid_y, grid_z) before
\* and limited after the scaling step
VoxelizeObject(extent, voxel_size, max_size, grid, limited, filled) ==
    /\ pc = "mesh"
    /\ grid \in grid_dim(extent[1], voxel_size) \X grid_dim(extent[2], voxel_size)
                    \X grid_dim(extent[3], voxel_size)
    /\ limited \in limited_grid(grid, exporter_max_size(max_size))
    /\ filled \in FilledIn(limited)
    /\ result' = [raised |-> "none", grid |-> grid, limited |-> limited,
                  voxels |-> voxelized_cells(limited, filled, <<180, 180, 180>>)]
    /\ raised' = "none"
    /\ call' = "_voxelize_object"
    /\ args' = <<extent, voxel_size, max_size>>
    /\ pc' = "voxelized"
    /\ UNCHANGED <<size, voxels, colors, file, scene, objects, quant, voxel_data>>

InitVoxelize ==
    /\ pc = "mesh"
    /\ size = << >>
    /\ voxels = << >>
    /\ colors = writer_default_palette
    /\ call = "none"
    /\ args = << >>
    /\ raised = "none"
    /\ file = << >>
    /\ scene = NoScene
    /\ objects = << >>
    /\ quant = NoQuant
    /\ voxel_data = NoVoxelData
    /\ result = NoResult

NextVoxelize ==
    \E extent \in ExtentIn \X ExtentIn \X ExtentIn, voxel_size \in VoxelSizeIn,
       max_size \in MaxSizeIn :
        \E grid \in grid_dim(extent[1], voxel_size) \X grid_dim(extent[2], voxel_size)
                        \X grid_dim(extent[3], voxel_size) :
            \E limited \in limited_grid(grid, exporter_max_size(max_size)) :
                \E filled \in FilledIn(limited) :
                    VoxelizeObject(extent, voxel_size, max_size, grid, limited, filled)

SpecVoxelize == InitVoxelize /\ [][NextVoxelize]_vars

(***************************************************************************)
(* apply_vox_rotation on the rotation of an instance.                      *)
(***************************************************************************)
\* the rotation bytes: bits 0 to 6 are decoded
RotationIn == 0..127

ApplyRotation(rotation_index) ==
    /\ pc \in {"rotation", "rotated"}
    /\ result' = apply_vox_rotation(rotation_index)
    /\ raised' = result'.raised
    /\ call' = "apply_vox_rotation"
    /\ args' = <<rotation_index>>
    /\ pc' = "rotated"
    /\ UNCHANGED <<size, voxels, colors, file, scene, objects, quant, voxel_data>>

InitRotation ==
    /\ pc = "rotation"
    /\ size = << >>
    /\ voxels = << >>
    /\ colors = writer_default_palette
    /\ call = "none"
    /\ args = << >>
    /\ raised = "none"
    /\ file = << >>
    /\ scene = NoScene
    /\ objects = << >>
    /\ quant = NoQuant
    /\ voxel_data = NoVoxelData
    /\ result = NoResult

NextRotation == \E rotation_index \in RotationIn : ApplyRotation(rotation_index)

SpecRotation == InitRotation /\ [][NextRotation]_vars

(***************************************************************************)
(* The legacy interface: read_vox_file on a file, then get_voxel_color on  *)
(* the VoxelData it returned.                                              *)
(***************************************************************************)
\* the chunks of these files: a SIZE, an XYZI with one voxel and one with two,
\* and an RGBA chunk holding MetadataPalette
LegacyChunkIn ==
    {[id |-> ID_SIZE, content |-> <<2, 0, 0, 0, 2, 0, 0, 0, 2, 0, 0, 0>>],
     [id |-> ID_XYZI, content |-> <<1, 0, 0, 0, 1, 1, 0, 9>>],
     [id |-> ID_XYZI, content |-> <<2, 0, 0, 0, 0, 0, 0, 1, 1, 0, 1, 255>>],
     [id |-> ID_RGBA, content |-> Groups4(MetadataPalette, 256)]}

\* the color indices looked up
ColorIndexIn == {-1, 0, 1, 2, 255, 256}

\* read_vox_file(filepath)
ReadFile ==
    /\ pc = "legacy file"
    /\ voxel_data' = read_vox_file(file)
    /\ raised' = voxel_data'.raised
    /\ call' = "read_vox_file"
    /\ args' = << >>
    /\ pc' = "legacy read"
    /\ UNCHANGED <<size, voxels, colors, file, scene, objects, quant, result>>

\* get_voxel_color(voxel_data, color_index) on the VoxelData read
GetVoxelColor(color_index) ==
    /\ pc \in {"legacy read", "color"}
    /\ voxel_data.raised = "none"
    /\ result' = [raised |-> "none", value |-> get_voxel_color(voxel_data, color_index)]
    /\ raised' = "none"
    /\ call' = "get_voxel_color"
    /\ args' = <<color_index>>
    /\ pc' = "color"
    /\ UNCHANGED <<size, voxels, colors, file, scene, objects, quant, voxel_data>>

InitLegacy ==
    /\ pc = "legacy file"
    /\ file \in {file_of(chunks) : chunks \in ListsUpTo(LegacyChunkIn, MaxChunks)}
                \cup {file_with(<<118, 111, 120, 32>>, VOX_VERSION, << >>, << >>)}
    /\ size = << >>
    /\ voxels = << >>
    /\ colors = writer_default_palette
    /\ call = "none"
    /\ args = << >>
    /\ raised = "none"
    /\ scene = NoScene
    /\ objects = << >>
    /\ quant = NoQuant
    /\ voxel_data = NoVoxelData
    /\ result = NoResult

NextLegacy ==
    \/ ReadFile
    \/ \E color_index \in ColorIndexIn : GetVoxelColor(color_index)

SpecLegacy == InitLegacy /\ [][NextLegacy]_vars

(***************************************************************************)
(* quantize_colors on its own.                                             *)
(***************************************************************************)
\* colours handed to quantize_colors: 4 lies as far from 0 as from the
\* average of 4 and 12
ColorIn == {<<0, 0, 0>>, <<4, 0, 0>>, <<12, 0, 0>>, <<0, 200, 7>>, <<255, 255, 255>>}

\* the lists of colours handed to quantize_colors: the short ones, and one
\* of five colours that needs two levels of cuts
ColorListIn ==
    ListsUpTo(ColorIn, MaxColorList)
    \cup {<<<<255, 255, 255>>, <<0, 200, 7>>, <<12, 0, 0>>, <<0, 0, 0>>, <<4, 0, 0>>>>}

InitQuant ==
    /\ pc = "quantize"
    /\ quant \in {[stage |-> "called", colors |-> color_list, max_colors |-> max_colors] :
                    color_list \in ColorListIn,
                    max_colors \in 1..MaxPalette}
    /\ size = << >>
    /\ voxels = << >>
    /\ colors = writer_default_palette
    /\ call = "none"
    /\ args = << >>
    /\ raised = "none"
    /\ file = << >>
    /\ scene = NoScene
    /\ objects = << >>
    /\ voxel_data = NoVoxelData
    /\ result = NoResult

\* palette, color_map = quantize_colors(colors, max_colors), the set of the
\* colours being iterated as unique_colors
Quantize(unique_colors) ==
    /\ pc = "quantize"
    /\ quant.stage = "called"
    /\ quant' = [stage |-> "returned", colors |-> quant.colors,
                 max_colors |-> quant.max_colors, unique_colors |-> unique_colors,
                 palette |-> quantize_colors(quant.colors, unique_colors,
                                             quant.max_colors).palette,
                 color_to_index |-> quantize_colors(quant.colors, unique_colors,
                                                    quant.max_colors).color_to_index]
    /\ call' = "quantize_colors"
    /\ UNCHANGED <<pc, size, voxels, colors, args, raised, file, scene, objects,
                   voxel_data, result>>

NextQuant == \E unique_colors \in Orders(Range(quant.colors)) : Quantize(unique_colors)

SpecQuant == InitQuant /\ [][NextQuant]_vars

(***************************************************************************)
(* Claims about the codec.                                                 *)
(***************************************************************************)
\* C1: reading the file that write produced from the model (size, voxels)
\* and the palette colors yields exactly one model, of that size and with
\* those voxels, and a palette whose entry for every colour index 1..255
\* (entry index-1 on the reader's side) is the colour colors holds for it.
C1_RoundTrip ==
    pc = "read" =>
        /\ scene.raised = "none"
        /\ Len(scene.models) = 1
        /\ <<scene.models[1].size_x, scene.models[1].size_y, scene.models[1].size_z>> = size
        /\ scene.models[1].voxels = voxels
        /\ \A index \in 1..255 : scene.palette[index - 1] = colors[index]

C1_Witness ==
    /\ pc = "read"
    /\ Len(voxels) = 2
    /\ size = <<256, 1, 66051>>
    /\ colors[1] = <<1, 2, 3, 4>>
    /\ colors[255] = <<9, 8, 7, 6>>

\* the number four bytes stand for, least significant byte first
LittleEndian(b) == b[1] + 256 * b[2] + 65536 * b[3] + 16777216 * b[4]

\* C10: in a written file the SIZE chunk content is the three sizes as
\* little-endian u32 (12 bytes) and the XYZI chunk content is the voxel count
\* as a little-endian u32 followed by (x, y, z, color_index) for each voxel in
\* insertion order; size (2,2,2) with the voxel (0,0,0,1) gives the bytes of
\* the example.  The file header is 8 bytes and the MAIN chunk header 12, so
\* the SIZE chunk starts at offset 20 and the XYZI chunk at offset 44.
C10_ByteLayout ==
    pc = "written" =>
        /\ \A j \in 1..Len(file) : file[j] \in 0..255
        /\ Slice(file, 20, 24) = ID_SIZE
        /\ LittleEndian(Slice(file, 24, 28)) = 12
        /\ \A k \in 0..2 : LittleEndian(Slice(file, 32 + 4 * k, 36 + 4 * k)) = size[k + 1]
        /\ Slice(file, 44, 48) = ID_XYZI
        /\ LittleEndian(Slice(file, 48, 52)) = 4 + 4 * Len(voxels)
        /\ LittleEndian(Slice(file, 56, 60)) = Len(voxels)
        /\ \A i \in 1..Len(voxels) : Slice(file, 56 + 4 * i, 60 + 4 * i) = voxels[i]
        /\ (size = <<2, 2, 2>> /\ voxels = <<<<0, 0, 0, 1>>>>) =>
               /\ Slice(file, 32, 44) = <<2, 0, 0, 0, 2, 0, 0, 0, 2, 0, 0, 0>>
               /\ Slice(file, 56, 64) = <<1, 0, 0, 0, 0, 0, 0, 1>>

C10_Witness ==
    /\ pc = "written"
    /\ size = <<2, 2, 2>>
    /\ voxels = <<<<0, 0, 0, 1>>>>
    /\ Slice(file, 56, 64) = <<1, 0, 0, 0, 0, 0, 0, 1>>

\* the arguments add_voxel is documented to accept
LegalVoxel(x, y, z, color_index) ==
    x \in 0..255 /\ y \in 0..255 /\ z \in 0..255 /\ color_index \in 1..255

\* C3: add_voxel raises exactly when a coordinate is outside 0..255 or the
\* colour index is outside 1..255; a call with legal arguments returns and
\* appends the voxel.
C3_AddVoxelValidates ==
    [][call' = "add_voxel" =>
          IF LegalVoxel(args'[1], args'[2], args'[3], args'[4])
          THEN raised' = "none" /\ voxels' = Append(voxels, args')
          ELSE raised' = "ValueError"]_vars

C3_Witness ==
    /\ call = "add_voxel"
    /\ args = <<0, 256, 0, 1>>
    /\ raised = "ValueError"
    /\ voxels = <<<<255, 255, 255, 255>>>>

\* C4: a rejected add_voxel or set_color call changes neither the voxel list
\* nor any of the 256 palette entries, so after any sequence of calls both
\* are what the accepted calls alone produced.
C4_RejectedCallChangesNothing ==
    [][(call' \in {"add_voxel", "set_color"} /\ raised' # "none") =>
          (voxels' = voxels /\ colors' = colors)]_vars

C4_Witness ==
    /\ call = "set_color"
    /\ raised = "ValueError"
    /\ args = <<256, 1, 2, 3, 4>>
    /\ Len(voxels) = 2
    /\ colors[255] = <<9, 8, 7, 6>>

\* C5: after any sequence of add_voxel calls the model holds at most one
\* entry per (x, y, z).
C5_OneEntryPerCoordinate ==
    \A i \in 1..Len(voxels) : \A j \in 1..Len(voxels) :
        (voxels[i][1] = voxels[j][1] /\ voxels[i][2] = voxels[j][2]
         /\ voxels[i][3] = voxels[j][3]) => i = j

(***************************************************************************)
(* C2: a preserved re-export of one imported object writes every voxel of  *)
(* the imported model at its original (x, y, z) with its original colour   *)
(* index, and the original palette at the indices 1..255.  The imported    *)
(* model is the one read_vox_scene returned; it holds one voxel for each   *)
(* coordinate here, so that no voxel is dropped as a duplicate.            *)
(***************************************************************************)
C2_PreservedReexportExact ==
    (/\ pc = "exported"
     /\ args = <<TRUE>>
     /\ Len(objects) = 1
     /\ \A i, j \in 1..Len(scene.models[1].voxels) :
            SubSeq(scene.models[1].voxels[i], 1, 3) = SubSeq(scene.models[1].voxels[j], 1, 3)
            => i = j)
    => /\ \A i \in 1..Len(scene.models[1].voxels) :
            \E j \in 1..Len(voxels) : voxels[j] = scene.models[1].voxels[i]
       /\ \A index \in 1..255 : colors[index] = scene.palette[index - 1]

(***************************************************************************)
(* C6: when two collected voxels have the same normalized and clamped      *)
(* (x, y, z) and different colours, the export writes exactly one voxel at *)
(* that coordinate, and it has the colour of the one collected first: its  *)
(* colour index (1 when that index is not in 1..255) in the preserved      *)
(* branch, a palette entry equal to its RGB colour in the quantized one.   *)
(***************************************************************************)
\* the collected voxels of the export that was called, normalized
C6_Collected == normalized_voxels(collected(objects, args[1]).all_voxels)

\* the first collected voxel at the coordinate of the collected voxel i
C6_First(i) ==
    C6_Collected[CHOOSE n \in 1..i :
        /\ SubSeq(C6_Collected[n], 1, 3) = SubSeq(C6_Collected[i], 1, 3)
        /\ \A m \in 1..(n - 1) :
               SubSeq(C6_Collected[m], 1, 3) # SubSeq(C6_Collected[i], 1, 3)]

\* the written voxel w has the colour of the collected voxel v
C6_SameColour(w, v) ==
    IF Len(v[4]) = 1
    THEN w[4] = (IF 1 <= v[4][1] /\ v[4][1] <= 255 THEN v[4][1] ELSE 1)
    ELSE colors[w[4]] = Append(v[4], 255)

C6_FirstCollectedWins ==
    (call = "export" /\ pc \in {"exported", "export failed"})
    => \A i, j \in 1..Len(C6_Collected) :
           (/\ i < j
            /\ SubSeq(C6_Collected[i], 1, 3) = SubSeq(C6_Collected[j], 1, 3)
            /\ C6_Collected[i][4] # C6_Collected[j][4])
           => /\ raised = "none"
              /\ Cardinality({n \in 1..Len(voxels) :
                     SubSeq(voxels[n], 1, 3) = SubSeq(C6_Collected[i], 1, 3)}) = 1
              /\ \A n \in 1..Len(voxels) :
                     SubSeq(voxels[n], 1, 3) = SubSeq(C6_Collected[i], 1, 3)
                     => C6_SameColour(voxels[n], C6_First(i))

(***************************************************************************)
(* C7 as stated: when the input has at most max_colors distinct colours,   *)
(* the palette holds exactly the distinct input colours, once each, and    *)
(* every input colour c is mapped to the index i with palette[i-1] = c.    *)
(***************************************************************************)
C7_PaletteIsInput ==
    /\ Len(quant.palette) = Cardinality(Range(quant.colors))
    /\ Range(quant.palette) = Range(quant.colors)
    /\ \A c \in Range(quant.colors) :
           /\ c \in DOMAIN quant.color_to_index
           /\ quant.color_to_index[c] \in 1..Len(quant.palette)
           /\ quant.palette[quant.color_to_index[c]] = c

C7_AsStated ==
    (quant.stage = "returned" /\ Cardinality(Range(quant.colors)) <= quant.max_colors)
    => C7_PaletteIsInput

(***************************************************************************)
(* C7 amended: when the input is not empty and has at most max_colors      *)
(* distinct colours, the palette holds exactly the distinct input colours, *)
(* once each, and every input colour c is mapped to the index i with       *)
(* palette[i-1] = c.                                                       *)
(***************************************************************************)
C7_NoReduction ==
    (/\ quant.stage = "returned"
     /\ quant.colors # << >>
     /\ Cardinality(Range(quant.colors)) <= quant.max_colors)
    => C7_PaletteIsInput

C7_Witness ==
    /\ quant.stage = "returned"
    /\ quant.colors = <<<<12, 0, 0>>, <<0, 0, 0>>, <<12, 0, 0>>>>
    /\ quant.max_colors = 2
    /\ quant.palette = <<<<0, 0, 0>>, <<12, 0, 0>>>>
    /\ quant.color_to_index[<<12, 0, 0>>] = 2

(***************************************************************************)
(* C8: when the input has more than max_colors distinct colours, the       *)
(* palette has at most max_colors entries, every distinct input colour is  *)
(* mapped to an index of the palette whose entry is nearest to it by the   *)
(* squared RGB distance, the first such entry on ties, and every channel   *)
(* of every palette entry lies between the least and the largest value of  *)
(* that channel among the input colours.                                   *)
(***************************************************************************)
C8_Reduction ==
    (quant.stage = "returned" /\ Cardinality(Range(quant.colors)) > quant.max_colors)
    => /\ Len(quant.palette) <= quant.max_colors
       /\ DOMAIN quant.color_to_index = Range(quant.colors)
       /\ \A c \in Range(quant.colors) :
              /\ quant.color_to_index[c] \in 1..Len(quant.palette)
              /\ \A n \in 1..Len(quant.palette) :
                     /\ color_distance_sq(c, quant.palette[quant.color_to_index[c]])
                            <= color_distance_sq(c, quant.palette[n])
                     /\ n < quant.color_to_index[c]
                        => color_distance_sq(c, quant.palette[quant.color_to_index[c]])
                               < color_distance_sq(c, quant.palette[n])
       /\ \A n \in 1..Len(quant.palette) : \A k \in 1..3 :
              /\ \E c \in Range(quant.colors) : c[k] <= quant.palette[n][k]
              /\ \E c \in Range(quant.colors) : quant.palette[n][k] <= c[k]

\* three colours cut to two: 4 is as far from 0 as from 8 and goes to the first
C8_Witness ==
    /\ quant.stage = "returned"
    /\ quant.max_colors = 2
    /\ Range(quant.colors) = {<<0, 0, 0>>, <<4, 0, 0>>, <<12, 0, 0>>}
    /\ quant.palette = <<<<0, 0, 0>>, <<8, 0, 0>>>>
    /\ quant.color_to_index[<<4, 0, 0>>] = 1

(***************************************************************************)
(* C9: for a file with no nTRN and no nSHP chunk and N SIZE/XYZI pairs,    *)
(* read_vox_scene returns N instances; instance i references model i and   *)
(* has translation (0, 0, 0), rotation 0 and the name "Model_i" (i from    *)
(* 0).                                                                     *)
(***************************************************************************)
\* the ids of the chunks of the file, in file order
C9_ChunkIds == [k \in 1..Len(parse_chunks(file, 8)) |-> parse_chunks(file, 8)[k].id]

C9_IsModelChunk(id) == id \in {ID_SIZE, ID_XYZI}

\* the file holds N pairs of a SIZE chunk and the XYZI chunk after it
C9_Pairs(N) ==
    /\ Len(SelectSeq(C9_ChunkIds, C9_IsModelChunk)) = 2 * N
    /\ \A k \in 1..N :
           /\ SelectSeq(C9_ChunkIds, C9_IsModelChunk)[2 * k - 1] = ID_SIZE
           /\ SelectSeq(C9_ChunkIds, C9_IsModelChunk)[2 * k] = ID_XYZI

C9_SynthesizedInstances ==
    (/\ pc = "file read"
     /\ \A k \in 1..Len(C9_ChunkIds) : C9_ChunkIds[k] \notin {ID_nTRN, ID_nSHP})
    => \A N \in 0..MaxChunks :
           C9_Pairs(N)
           => /\ scene.raised = "none"
              /\ Len(scene.models) = N
              /\ Len(scene.instances) = N
              /\ \A i \in 0..(N - 1) :
                     /\ scene.instances[i + 1].model_id = i
                     /\ scene.instances[i + 1].translation = <<0, 0, 0>>
                     /\ scene.instances[i + 1].rotation = 0
                     /\ scene.instances[i + 1].name
                            = <<77, 111, 100, 101, 108, 95, 48 + i>>

\* two models of different sizes
C9_Witness ==
    /\ pc = "file read"
    /\ C9_ChunkIds = <<ID_MAIN, ID_SIZE, ID_XYZI, ID_SIZE, ID_XYZI>>
    /\ Len(scene.instances) = 2
    /\ scene.instances[2].model_id = 1
    /\ scene.instances[2].name = <<77, 111, 100, 101, 108, 95, 49>>
    /\ scene.models[2].size_y = 3

(***************************************************************************)
(* C11: a header version other than 150 or 200 does not abort              *)
(* read_vox_scene: the scene returned is the one returned for the same     *)
(* bytes with version 150.                                                 *)
(***************************************************************************)
\* the bytes of the file with the version replaced by 150
C11_WithVersion150 == Slice(file, 0, 4) \o pack_I(150) \o Slice(file, 8, Len(file))

C11_VersionIgnored ==
    (/\ pc = "file read"
     /\ Len(file) >= 8
     /\ version_warning(file))
    => scene = read_vox_scene(C11_WithVersion150)

\* a file of version 999 with a model and a resolved instance was read
C11_Witness ==
    /\ pc = "file read"
    /\ Len(file) >= 8
    /\ u32_at(file, 4) = 999
    /\ scene.raised = "none"
    /\ Len(scene.models) = 1
    /\ Len(scene.instances) = 1
    /\ scene.instances[1].name = <<77, 111, 100, 101, 108, 95, 48>>

(***************************************************************************)
(* C12: read_vox_scene raises ValueError and returns no scene whenever the *)
(* first four bytes of the input are not "VOX ", whatever follows them.    *)
(***************************************************************************)
C12_BadMagicAborts ==
    (pc = "file read" /\ Slice(file, 0, 4) # ID_VOX)
    => (scene = Failed("ValueError") /\ raised = "ValueError")

\* a file that starts with "vox " and goes on with a version and a MAIN chunk
\* holding a SIZE and an XYZI chunk was read
C12_Witness ==
    /\ pc = "file read"
    /\ Slice(file, 0, 4) = <<118, 111, 120, 32>>
    /\ Slice(file, 4, 8) = pack_I(VOX_VERSION)
    /\ Slice(file, 20, 24) = ID_SIZE
    /\ Slice(file, 44, 48) = ID_XYZI
    /\ scene = Failed("ValueError")

(***************************************************************************)
(* C13: a cut chunk header.  After the 8-byte file header the chunk loop   *)
(* has come to a chunk boundary where bytes are left, but fewer than the   *)
(* 12 of a chunk header.                                                   *)
(***************************************************************************)
C13_TruncatedHeader ==
    /\ pc = "file read"
    /\ Slice(file, 0, 4) = ID_VOX
    /\ Len(file) >= 8
    /\ chunks_end(file, 8) < Len(file)
    /\ Len(file) - chunks_end(file, 8) < 12

\* C13 as stated: a truncated chunk header is fatal, read_vox_scene fails
\* with an error instead of returning a scene
C13_TruncatedHeaderFatal == C13_TruncatedHeader => scene.raised # "none"

\* C13 amended: a truncated chunk header ends the chunk loop without an
\* error; the bytes left are ignored and read_vox_scene returns what it
\* returns for the file without them
C13_TruncatedHeaderEndsScan ==
    C13_TruncatedHeader => scene = read_vox_scene(Slice(file, 0, chunks_end(file, 8)))

\* a file whose SIZE and XYZI chunks are followed by 10 bytes of a chunk
\* header was read, and the scene holds the model
C13_Witness ==
    /\ C13_TruncatedHeader
    /\ Len(file) - chunks_end(file, 8) = 10
    /\ scene.raised = "none"
    /\ Len(scene.models) = 1
    /\ scene.models[1].voxels = <<<<1, 1, 0, 9>>>>

(***************************************************************************)
(* C14: an XYZI chunk before any SIZE chunk is skipped.  The models of the *)
(* scene are the XYZI chunks that have a SIZE chunk before them, in file   *)
(* order, each with the dimensions of the last SIZE chunk before it: no    *)
(* model has dimensions that were not read from a SIZE chunk of the file.  *)
(***************************************************************************)
\* the positions, in the chunk list, of the XYZI chunks with a SIZE before
C14_Sized(chunks) ==
    {k \in 1..Len(chunks) :
        chunks[k].id = ID_XYZI /\ \E j \in 1..(k - 1) : chunks[j].id = ID_SIZE}

\* the dimensions in the last SIZE chunk before position k
C14_SizeBefore(chunks, k) ==
    LET j == CHOOSE n \in 1..(k - 1) :
                 /\ chunks[n].id = ID_SIZE
                 /\ \A m \in (n + 1)..(k - 1) : chunks[m].id # ID_SIZE
    IN <<u32_at(chunks[j].content, 0), u32_at(chunks[j].content, 4),
         u32_at(chunks[j].content, 8)>>

C14_ModelsOf(chunks) ==
    /\ Len(scene.models) = Cardinality(C14_Sized(chunks))
    /\ \A k \in C14_Sized(chunks) :
          LET model == scene.models[Cardinality({n \in C14_Sized(chunks) : n <= k})]
          IN /\ <<model.size_x, model.size_y, model.size_z>> = C14_SizeBefore(chunks, k)
             /\ model.voxels = xyzi_voxels(chunks[k].content, u32_at(chunks[k].content, 0))

C14_NoFabricatedSize ==
    (pc = "file read" /\ scene.raised = "none") => C14_ModelsOf(parse_chunks(file, 8))

\* a file XYZI, SIZE, XYZI was read: the scene holds one model, of the second
\* XYZI chunk
C14_Witness ==
    /\ pc = "file read"
    /\ scene.raised = "none"
    /\ Len(parse_chunks(file, 8)) = 4
    /\ parse_chunks(file, 8)[2].id = ID_XYZI
    /\ parse_chunks(file, 8)[2].content = <<1, 0, 0, 0, 1, 1, 0, 9>>
    /\ parse_chunks(file, 8)[3].id = ID_SIZE
    /\ parse_chunks(file, 8)[4].id = ID_XYZI
    /\ Len(scene.models) = 1

(***************************************************************************)
(* C15: an export whose collected voxels are empty raises ValueError and   *)
(* writes no file, whether preserve_vox_data is set (voxels taken from the *)
(* metadata) or not (voxels of the voxelized meshes).                      *)
(***************************************************************************)
C15_EmptyExportFails ==
    [][(call' = "export" /\ pc \in {"scene", "imported"}
            /\ collected(objects, args'[1]).all_voxels = << >>)
       => (raised' = "ValueError" /\ file' = file /\ pc' = "export failed")]_vars

\* the export of an imported object without voxels, with preserve_vox_data,
\* has failed and there is no file
C15_Witness ==
    /\ pc = "export failed"
    /\ call = "export"
    /\ args = <<TRUE>>
    /\ Len(objects) = 1
    /\ collected(objects, TRUE).use_original_indices
    /\ collected(objects, TRUE).all_voxels = << >>
    /\ raised = "ValueError"
    /\ file = << >>

(***************************************************************************)
(* C16: get_voxel_color by colour index.                                   *)
(***************************************************************************)
\* C16 as stated: the lookup returns the stored RGBA for every index in
\* 1..255 and is an error for any index outside 1..255
C16_ErrorOutsideRange ==
    pc = "color"
    => IF 1 <= args[1] /\ args[1] <= 255
       THEN result = [raised |-> "none", value |-> voxel_data.palette[args[1] - 1]]
       ELSE result.raised # "none"

\* C16 amended: the lookup returns the stored RGBA, entry index - 1 of the
\* palette list, for every index in 1..255, and the colour (255, 255, 255,
\* 255) without an error for any index outside 1..255
C16_WhiteOutsideRange ==
    pc = "color"
    => IF 1 <= args[1] /\ args[1] <= 255
       THEN result = [raised |-> "none", value |-> voxel_data.palette[args[1] - 1]]
       ELSE result = [raised |-> "none", value |-> <<255, 255, 255, 255>>]

\* index 256 was looked up in the palette read from an RGBA chunk, whose
\* entries are not white
C16_Witness ==
    /\ pc = "color"
    /\ args = <<256>>
    /\ voxel_data.palette = [i \in 0..255 |-> MetadataPalette[i + 1]]
    /\ result.value = <<255, 255, 255, 255>>

(***************************************************************************)
(* C17: after any sequence of set_color calls the RGBA chunk that write    *)
(* puts in the file has a content of exactly 1024 bytes, in which file     *)
(* position i (0..254) holds the colour stored for palette index i + 1 and *)
(* file position 255 holds (0, 0, 0, 255).  The RGBA chunk follows the     *)
(* XYZI chunk, whose content ends at offset 60 + 4 * Len(voxels).          *)
(***************************************************************************)
C17_RGBAOffset == 60 + 4 * Len(voxels)

C17_RGBAChunk ==
    pc = "written" =>
        /\ Slice(file, C17_RGBAOffset, C17_RGBAOffset + 4) = ID_RGBA
        /\ LittleEndian(Slice(file, C17_RGBAOffset + 4, C17_RGBAOffset + 8)) = 1024
        /\ LittleEndian(Slice(file, C17_RGBAOffset + 8, C17_RGBAOffset + 12)) = 0
        /\ Len(file) = C17_RGBAOffset + 12 + 1024
        /\ \A i \in 0..254 :
              Slice(file, C17_RGBAOffset + 12 + 4 * i, C17_RGBAOffset + 16 + 4 * i)
                  = colors[i + 1]
        /\ Slice(file, C17_RGBAOffset + 12 + 1020, C17_RGBAOffset + 12 + 1024)
               = <<0, 0, 0, 255>>

\* a file was written after set_color(1, 1, 2, 3, 4) and set_color(255, 9, 8,
\* 7, 6) and a rejected set_color: positions 0 and 254 hold the two colours
C17_Witness ==
    /\ pc = "written"
    /\ colors[1] = <<1, 2, 3, 4>>
    /\ colors[255] = <<9, 8, 7, 6>>
    /\ Len(voxels) = 1
    /\ Slice(file, 76, 80) = <<1, 2, 3, 4>>
    /\ Slice(file, 76 + 4 * 254, 80 + 4 * 254) = <<9, 8, 7, 6>>

(***************************************************************************)
(* C18: for every rotation code in 0..23 apply_vox_rotation decodes a 3x3  *)
(* matrix with exactly one nonzero entry, +1 or -1, in every row and every *)
(* column (the identity for code 0), and distinct codes give distinct      *)
(* matrices.                                                               *)
(***************************************************************************)
\* the rotation an outcome of apply_vox_rotation stands for: the identity
\* when the object's rotation was left alone
C18_Matrix(outcome) ==
    IF outcome.mat = << >> THEN <<<<1, 0, 0>>, <<0, 1, 0>>, <<0, 0, 1>>>> ELSE outcome.mat

C18_SignedPermutation(mat) ==
    /\ \A i \in 1..3 : \A j \in 1..3 : mat[i][j] \in {-1, 0, 1}
    /\ \A i \in 1..3 : Cardinality({j \in 1..3 : mat[i][j] # 0}) = 1
    /\ \A j \in 1..3 : Cardinality({i \in 1..3 : mat[i][j] # 0}) = 1

C18_RoundTrippable ==
    (pc = "rotated" /\ args[1] \in 0..23)
    => /\ result.raised = "none"
       /\ C18_SignedPermutation(C18_Matrix(result))
       /\ \A code \in (0..23) \ {args[1]} :
             apply_vox_rotation(code).raised = "none"
             => C18_Matrix(apply_vox_rotation(code)) # C18_Matrix(result)

(***************************************************************************)
(* C19: chunks with an id other than SIZE, XYZI, RGBA, nTRN and nSHP are   *)
(* skipped.  The scene read from a file made of well-formed chunks is the  *)
(* scene read from the file made of the same chunks without those of       *)
(* another id, wherever in the file they are.                              *)
(***************************************************************************)
\* the chunks of the file after MAIN
C19_Chunks == Tail(parse_chunks(file, 8))

C19_Recognized(chunk) == chunk.id \in {ID_SIZE, ID_XYZI, ID_RGBA, ID_nTRN, ID_nSHP}

C19_UnknownChunksSkipped ==
    (pc = "file read" /\ file = file_of(C19_Chunks))
    => scene = read_vox_scene(file_of(SelectSeq(C19_Chunks, C19_Recognized)))

\* a file SIZE, NOTE, XYZI, NOTE was read: the scene holds the model
C19_Witness ==
    /\ pc = "file read"
    /\ file = file_of(C19_Chunks)
    /\ Len(C19_Chunks) = 4
    /\ C19_Chunks[1].id = ID_SIZE
    /\ C19_Chunks[2].id = <<78, 79, 84, 69>>
    /\ C19_Chunks[3] = [id |-> ID_XYZI, content |-> <<1, 0, 0, 0, 1, 1, 0, 9>>]
    /\ C19_Chunks[4].id = <<78, 79, 84, 69>>
    /\ scene.raised = "none"
    /\ Len(scene.models) = 1
    /\ Len(scene.instances) = 1

(***************************************************************************)
(* C20: for a file with several models read_vox_file returns a VoxelData   *)
(* whose voxels are the voxels of all the models, merged.                  *)
(***************************************************************************)
\* the voxel lists of the models, one after the other
C20_AllVoxels(models) == Concat([i \in 1..Len(models) |-> models[i].voxels])

C20_MergesAllModels ==
    (/\ pc \in {"legacy read", "color"}
     /\ voxel_data.raised = "none"
     /\ Len(read_vox_scene(file).models) > 1)
    => voxel_data.voxels = C20_AllVoxels(read_vox_scene(file).models)

(***************************************************************************)
(* C21: each SIZE chunk gives its dimensions to the next XYZI chunk and to *)
(* no other: the models of the scene are the XYZI chunks that have a SIZE  *)
(* chunk before them with no other XYZI chunk in between.                  *)
(***************************************************************************)
\* the positions of the XYZI chunks that are the first after some SIZE chunk
C21_Paired(chunks) ==
    {k \in 1..Len(chunks) :
        /\ chunks[k].id = ID_XYZI
        /\ \E j \in 1..(k - 1) :
              /\ chunks[j].id = ID_SIZE
              /\ \A m \in (j + 1)..(k - 1) : chunks[m].id # ID_XYZI}

C21_SizeUsedOnce ==
    (pc = "file read" /\ scene.raised = "none")
    => Len(scene.models) = Cardinality(C21_Paired(parse_chunks(file, 8)))

(***************************************************************************)
(* C22: a mixed export, of at least one object with preserved metadata and *)
(* at least one other object that is voxelized, completes through the      *)
(* preserved-indices branch: every voxel written has a colour index in     *)
(* 1..255 and the preserved palette is written.                            *)
(***************************************************************************)
C22_Mixed ==
    \E i, j \in 1..Len(objects) :
        /\ has_preserved_data(objects[i], TRUE)
        /\ ~has_preserved_data(objects[j], TRUE)
        /\ objects[j].voxelized # << >>

C22_MixedExportCompletes ==
    (call = "export" /\ pc \in {"exported", "export failed"} /\ args = <<TRUE>> /\ C22_Mixed)
    => /\ raised = "none"
       /\ pc = "exported"
       /\ \A n \in 1..Len(voxels) : voxels[n][4] \in 1..255
       /\ colors = original_palette_set(collected(objects, TRUE).original_palette)

(***************************************************************************)
(* C23: when several objects carry preserved metadata, the palette written *)
(* by the export is the palette of the last of them in iteration order,    *)
(* and every voxel written keeps the colour index its own object stored    *)
(* for it (1 where that index is not in 1..255).                           *)
(***************************************************************************)
\* the last object with preserved metadata
C23_Last == CHOOSE i \in 1..Len(objects) :
                /\ has_preserved_data(objects[i], TRUE)
                /\ \A j \in (i + 1)..Len(objects) : ~has_preserved_data(objects[j], TRUE)

\* the collected voxels, normalized
C23_Collected == normalized_voxels(collected(objects, TRUE).all_voxels)

\* the first collected voxel at the coordinate of the written voxel w
C23_Source(w) ==
    C23_Collected[CHOOSE n \in 1..Len(C23_Collected) :
        /\ SubSeq(C23_Collected[n], 1, 3) = SubSeq(w, 1, 3)
        /\ \A m \in 1..(n - 1) : SubSeq(C23_Collected[m], 1, 3) # SubSeq(w, 1, 3)]

C23_LastPaletteWins ==
    (/\ call = "export"
     /\ pc = "exported"
     /\ args = <<TRUE>>
     /\ \E i \in 1..Len(objects) : has_preserved_data(objects[i], TRUE))
    => /\ colors = original_palette_set(objects[C23_Last].metadata[1].palette)
       /\ \A index \in 1..255 :
             Slice(file, 60 + 4 * Len(voxels) + 12 + 4 * (index - 1),
                         60 + 4 * Len(voxels) + 12 + 4 * index)
                 = objects[C23_Last].metadata[1].palette[index]
       /\ \A n \in 1..Len(voxels) :
             /\ \E m \in 1..Len(C23_Collected) :
                    SubSeq(C23_Collected[m], 1, 3) = SubSeq(voxels[n], 1, 3)
             /\ voxels[n][4] = (IF C23_Source(voxels[n])[4][1] \in 1..255
                                THEN C23_Source(voxels[n])[4][1] ELSE 1)

\* two objects with different palettes were exported: the voxel of the first
\* keeps index 5, the voxel of the second index 9, under the second palette
C23_Witness ==
    /\ call = "export"
    /\ pc = "exported"
    /\ args = <<TRUE>>
    /\ Len(objects) = 2
    /\ objects[1].metadata # << >>
    /\ objects[2].metadata # << >>
    /\ objects[1].metadata[1].palette = MetadataPalette
    /\ objects[2].metadata[1].palette = OtherPalette
    /\ voxels = <<<<1, 0, 0, 5>>, <<0, 0, 0, 9>>>>
    /\ colors[5] = <<3, 4, 251, 255>>

(***************************************************************************)
(* C24: instance resolution.  A transform node is the last nTRN chunk of   *)
(* its node_id, a shape node the last nSHP chunk of its node_id that has   *)
(* at least one model reference.                                           *)
(***************************************************************************)
C24_Chunks == parse_chunks(file, 8)

C24_NodeId(k) == u32_at(C24_Chunks[k].content, 0)

\* chunk k is the transform node of its node_id
C24_IsTransform(k) ==
    /\ C24_Chunks[k].id = ID_nTRN
    /\ \A m \in (k + 1)..Len(C24_Chunks) :
           C24_Chunks[m].id = ID_nTRN => C24_NodeId(m) # C24_NodeId(k)

\* chunk k is the shape node of its node_id
C24_IsShape(k) ==
    /\ C24_Chunks[k].id = ID_nSHP
    /\ parse_nSHP(C24_Chunks[k].content).has_model
    /\ \A m \in (k + 1)..Len(C24_Chunks) :
           (C24_Chunks[m].id = ID_nSHP /\ parse_nSHP(C24_Chunks[m].content).has_model)
           => C24_NodeId(m) # C24_NodeId(k)

\* the transform nodes whose child is a shape node: pairs of chunk positions
C24_Matches ==
    {p \in (1..Len(C24_Chunks)) \X (1..Len(C24_Chunks)) :
        /\ C24_IsTransform(p[1])
        /\ C24_IsShape(p[2])
        /\ parse_nTRN(C24_Chunks[p[1]].content).child_node_id = C24_NodeId(p[2])}

\* those of them whose first model reference is a model of the file
C24_Resolved ==
    {p \in C24_Matches :
        parse_nSHP(C24_Chunks[p[2]].content).model_id < Len(scene.models)}

\* the instance of the match p
C24_Instance(p) ==
    [model_id |-> parse_nSHP(C24_Chunks[p[2]].content).model_id,
     translation |-> parse_nTRN(C24_Chunks[p[1]].content).translation,
     rotation |-> parse_nTRN(C24_Chunks[p[1]].content).rotation,
     name |-> parse_nTRN(C24_Chunks[p[1]].content).name]

\* the position of the first nTRN chunk with the node_id of chunk k: the
\* place the node has in the order of the transform nodes
C24_FirstOf(k) ==
    CHOOSE m \in 1..k :
        /\ C24_Chunks[m].id = ID_nTRN
        /\ C24_NodeId(m) = C24_NodeId(k)
        /\ \A n \in 1..(m - 1) :
               C24_Chunks[n].id = ID_nTRN => C24_NodeId(n) # C24_NodeId(k)

\* the instances are one for each of the matches of P, in the order of their
\* transform nodes, and no other
C24_OnePerMatch(P) ==
    /\ Len(scene.instances) = Cardinality(P)
    /\ \A p \in P :
          scene.instances[Cardinality({q \in P : C24_FirstOf(q[1]) <= C24_FirstOf(p[1])})]
              = C24_Instance(p)

\* C24 as stated: every transform node whose child is a shape node with at
\* least one model reference gives exactly one instance, with the shape's
\* first model_id and the transform's translation, rotation and name, and
\* the number of instances is the number of such transform nodes
C24_OnePerTransform ==
    (pc = "file read" /\ scene.raised = "none") => C24_OnePerMatch(C24_Matches)

\* C24 amended: every transform node whose child is a shape node with at
\* least one model reference, the first of which is the index of a model of
\* the file, gives exactly one instance, with that model_id and the
\* transform's translation, rotation and name; when there is such a
\* transform node, or the file has no model, the scene has no other instance
C24_OnePerResolvedTransform ==
    (pc = "file read" /\ scene.raised = "none"
        /\ (C24_Resolved # {} \/ scene.models = << >>))
    => C24_OnePerMatch(C24_Resolved)

\* a file with the transforms 0 "A" and 2 over shape 1 (model 0) was read: two
\* instances of the model, the first with the name, translation and
\* rotation of transform 0
C24_Witness ==
    /\ pc = "file read"
    /\ scene.raised = "none"
    /\ Len(scene.models) = 2
    /\ Cardinality(C24_Resolved) = 2
    /\ scene.instances =
           <<[model_id |-> 0, translation |-> <<1, 2, 3>>, rotation |-> 4, name |-> <<65>>],
             [model_id |-> 0, translation |-> <<0, 0, 0>>, rotation |-> 0, name |-> << >>]>>

\* the max_size the exporter of the last call works with
C25_MaxSize == exporter_max_size(args[3])

\* C25: after the max_size scaling step every grid dimension is at most
\* max_size, and every voxel _voxelize_object emits has its coordinates in
\* 0..max_size-1, none above 255.
C25_GridWithinMaxSize ==
    pc = "voxelized" =>
        /\ \A k \in 1..3 : result.limited[k] <= C25_MaxSize
        /\ \A i \in DOMAIN result.voxels :
               \A k \in 1..3 : /\ result.voxels[i][k] \in 0..(C25_MaxSize - 1)
                               /\ result.voxels[i][k] <= 255

\* a 6 x 6 x 6 grid limited to max_size 4 and filled: 64 voxels up to (3,3,3)
C25_Witness ==
    /\ pc = "voxelized"
    /\ args = <<(<<5, 5, 5>>), 1, 4>>
    /\ result.grid = <<6, 6, 6>>
    /\ result.limited = <<4, 4, 4>>
    /\ Len(result.voxels) = 64
    /\ result.voxels[64] = <<3, 3, 3, (<<180, 180, 180>>)>>

\* C29: the max_size scaling step leaves every grid dimension at least 1.
C29_GridNeverEmpty ==
    pc = "voxelized" => \A k \in 1..3 : result.limited[k] >= 1

\* what read_vox_file returns for a file of one SIZE/XYZI pair and no RGBA
\* chunk
C26_NoRGBA ==
    read_vox_file(file_of(<<[id |-> ID_SIZE, content |-> <<2, 0, 0, 0, 2, 0, 0, 0, 2, 0, 0, 0>>],
                            [id |-> ID_XYZI, content |-> <<1, 0, 0, 0, 1, 1, 0, 9>>]>>))

\* C26: for every colour index i in 1..255 the colour the reader resolves
\* for i from a file without RGBA chunk equals the colour it resolves for i
\* from a file written by VoxWriter with an unmodified default palette.
C26_DefaultPalettesAgree ==
    (pc = "read" /\ colors = writer_default_palette) =>
        \A i \in 1..255 :
            get_voxel_color(C26_NoRGBA, i) = get_voxel_color(voxel_data_of(scene), i)

\* the model in the file the export wrote
C27_Written == read_vox_scene(file).models[1]

\* the written SIZE on axis k
C27_Size(k) == <<C27_Written.size_x, C27_Written.size_y, C27_Written.size_z>>[k]

\* C27: the model written by an export is well-formed: the written SIZE is
\* between 1 and 256 on every axis, and every written voxel coordinate is in
\* 0..255 and below the written SIZE of its axis.
C27_WrittenModelWellFormed ==
    (call = "export" /\ pc = "exported") =>
        \A k \in 1..3 :
            /\ C27_Size(k) \in 1..256
            /\ \A n \in 1..Len(C27_Written.voxels) :
                   /\ C27_Written.voxels[n][k] \in 0..255
                   /\ C27_Written.voxels[n][k] < C27_Size(k)

\* the file holds a scene graph: an nTRN or an nSHP chunk
C28_HasSceneGraph ==
    \E k \in 1..Len(parse_chunks(file, 8)) : parse_chunks(file, 8)[k].id \in {ID_nTRN, ID_nSHP}

\* the instance is one of the synthesized ones: named "Model_<model_id>"
C28_Synthesized(instance) ==
    instance.name = <<77, 111, 100, 101, 108, 95, 48 + instance.model_id>>

\* C28: when the file holds at least one nTRN or nSHP chunk, read_vox_scene
\* returns no synthesized "Model_i" instance, even when no transform
\* resolves to a shape with a valid model.
C28_NoSynthesisWithSceneGraph ==
    (pc = "file read" /\ scene.raised = "none" /\ C28_HasSceneGraph) =>
        \A i \in 1..Len(scene.instances) : ~C28_Synthesized(scene.instances[i])

\* the largest power of two that is at most max_colors
C30_Entries ==
    CHOOSE p \in 1..quant.max_colors :
        is_power_of_two(p) /\ p <= quant.max_colors /\ 2 * p > quant.max_colors

\* the list median_cut returned inside the call
C30_MedianCut == median_cut(quant.unique_colors, floor_log2(quant.max_colors))

\* C30: when quantize_colors is given more than max_colors distinct
\* colours, the list median_cut returns has exactly 2^floor(log2(max_colors))
\* entries, the truncation to max_colors removes none of them, and no
\* palette index above that number is assigned.
C30_MedianCutPaletteSize ==
    (quant.stage = "returned" /\ Len(quant.unique_colors) > quant.max_colors) =>
        /\ Len(C30_MedianCut) = C30_Entries
        /\ quant.palette = C30_MedianCut
        /\ \A c \in DOMAIN quant.color_to_index : quant.color_to_index[c] \in 1..C30_Entries

\* five colours reduced with max_colors 3: one cut, two entries
C30_Witness ==
    /\ quant.stage = "returned"
    /\ Len(quant.unique_colors) = 5
    /\ quant.max_colors = 3
    /\ Len(quant.palette) = 2
    /\ \E c \in DOMAIN quant.color_to_index : quant.color_to_index[c] = 2
====
